---- MODULE Spec2Model ----
(***************************************************************************)
(* Verification model of the GG-CORE runtime kernel (core-runtime).        *)
(*                                                                         *)
(* The module holds one state machine per subsystem; every subsystem has   *)
(* its own specification, which leaves the other subsystems untouched:     *)
(*   SpecQueue  scheduler::queue::RequestQueue   (request queue + worker)  *)
(*   SpecAuth   ipc::auth::SessionAuth           (handshake rate limiter)  *)
(*   SpecSession ipc::auth::SessionAuth          (session validation)      *)
(*   SpecNonce  security::encryption_core        (nonce tracker)           *)
(*   SpecKv     memory::kv_cache_core / _ops     (paged KV cache)          *)
(*   SpecPool   models::pool::ModelPool          (tiered model pool)       *)
(*   SpecTp     scheduler::thread_pool           (work-stealing pool)      *)
(*   SpecTpLoad scheduler::thread_pool           (the pool filled up)      *)
(*   SpecIpc    ipc::server::handle_connection   (connection loop)         *)
(*   SpecSan    security::output_sanitizer       (streaming sanitizer)     *)
(*   SpecStream ffi::streaming                   (callback streaming)      *)
(*   SpecShutdown runtime_init::run_ipc_server   (signal-driven shutdown)  *)
(*   SpecRegistry models::registry::ModelRegistry  (model registry)        *)
(*   SpecAudit  security::audit::AuditLogger     (audit log)               *)
(*   SpecKvRows memory::kv_cache_core / _ops     (rows appended and read)  *)
(*   SpecAuthRace ipc::auth_session::RateLimiter (concurrent failures)     *)
(*   SpecConn   ipc::auth::SessionAuth           (connection counting)     *)
(*   SpecPii    security::pii_patterns           (overlap resolution)      *)
(***************************************************************************)
EXTENDS Integers, Sequences, FiniteSets, TLC

VARIABLES
    \* ---- request queue (scheduler/queue.rs) ----
    queue,        \* pending requests, head first
    next_id,      \* next request id to assign
    qnow,         \* clock of the queue, in ms
    sinks,        \* request id -> state of its response sink
    invoked,      \* ids handed to the Model capability
    cancelledOk,  \* ids for which cancel(id) returned true
    qlast,        \* record of the last queue call
    \* ---- session authenticator (ipc/auth.rs, ipc/auth_session.rs) ----
    failed_attempts,  \* RateLimiter.failed_attempts
    window_start,     \* RateLimiter.window_start (None or an instant)
    blocked_until,    \* RateLimiter.blocked_until (None or an instant)
    sessions,         \* session id -> Session (with ok_times: its last successful validates)
    next_session,     \* next fresh session id (stands for the CSPRNG id)
    anow,             \* clock of the authenticator, in seconds
    failLog,          \* instants of the failures counted in the open window
    blockSetAt,       \* instant at which blocked_until was last set, or None
    lastAuth,         \* record of the last authenticate call
    \* ---- nonce tracker (security/encryption_core.rs) ----
    tracker,          \* NONCE_TRACKER: set of remembered nonces
    okSinceTrim,      \* nonces accepted since the last half-trim
    okEver,           \* nonces accepted at any time
    lastNonce,        \* record of the last check_and_register_nonce call
    \* ---- KV cache (memory/kv_cache_core.rs, kv_cache_ops.rs, paged.rs) ----
    sequences,        \* SequenceId -> SequenceEntry (page_ids, seq_len, evicted)
    access_order,     \* VecDeque<SequenceId>
    next_seq_id,      \* next SequenceId
    free_list,        \* PageTable: ids of the free pages
    pages_created,    \* PageTable: number of page ids created so far
    seqLock,          \* state of the `sequences` RwLock
    lastKv,           \* record of the last KV-cache call
    \* ---- model pool (models/pool.rs) ----
    models,          \* HashMap<String, PooledModel>: id -> tier, memory_bytes, last_used, use_count
    active_model,    \* ModelPool.active_model (None or a model id)
    evictions,       \* PoolMetrics.evictions
    unregistered,    \* handles evict_one passed to ModelRegistry::unregister
    pnow,            \* clock of the pool, in seconds
    ptask,           \* per caller: where its preload or switch_to stands
    lastPool,        \* record of the last pool step
    \* ---- thread pool (scheduler/thread_pool.rs) ----
    worker_queues,   \* per-worker deque of PrioritizedTask (priority, sequence), front first
    global_queue,    \* ThreadPool.global_queue
    task_sequence,   \* ThreadPool.task_sequence
    shutdown,        \* ThreadPool.shutdown
    wstate,          \* worker thread: alive, exited (returned) or dead (panicked)
    total_tasks_executed, \* ThreadPoolStats.total_tasks_executed
    submitter,       \* per submitting thread: where its submit_with_priority stands
    lastTp,          \* record of the last thread-pool step
    \* ---- IPC connection loop (ipc/server.rs) ----
    conns,           \* per connection: open, session of handle_connection, handshaken (a Handshake succeeded on it)
    active_connections, \* ConnectionPool: guards handed out and not yet dropped
    lastIpc,         \* record of the last step of a connection loop
    \* ---- streaming sanitizer (security/output_sanitizer.rs) ----
    buffer,          \* StreamingSanitizerState.buffer
    processed_until, \* StreamingSanitizerState.processed_until
    emitted,         \* concatenation of the strings sanitize_chunk returned
    fed,             \* concatenation of the chunks given to sanitize_chunk
    \* ---- FFI streaming (ffi/streaming.rs) ----
    streams,         \* per call of core_infer_streaming: position, cancelled flag of its invoker, callbacks made, return code
    \* ---- runtime shutdown (runtime_init.rs, ipc/server.rs) ----
    main_pc,         \* where run_ipc_server stands
    shutdown_rx,     \* value of the watch channel the accept loop listens on
    server_pc,       \* the run_server task: accepting or returned
    socket_bound,    \* the socket file exists
    accepted,        \* connections the accept loop has accepted
    submitted,       \* requests submitted so far
    rq_len,          \* requests waiting in the request queue
    rq_notified,     \* the queue has a notification for its waiter
    in_flight,       \* requests accepted and not yet answered
    worker_pc,       \* the worker task: idle, parked, running or exited
    worker_shutdown, \* the worker's CancellationToken is cancelled
    drain,           \* shutdown.initiate: its result, the requests remaining, timeout run out
    sdlog,           \* what has happened: wake() called, worker parked when cancelled
    \* ---- model registry (models/registry.rs) ----
    registry,        \* HashMap<ModelHandle, LoadedModel>: state, request_count, total_latency_ms (bits); first and prev state
    next_handle,     \* ModelRegistry.next_id
    rec,             \* per task: where its record_request stands
    recorded,        \* per handle: record_request calls made, sum of their latencies, a compare_exchange failed
    \* ---- audit log (security/audit.rs) ----
    audit_config,    \* the AuditConfig of AUDIT_LOGGER, NoLogger before init_audit_logger
    audit_events,    \* AuditLogger.events
    audit_calls,     \* log calls made so far
    audit_logged,    \* every event given to log since the log was last empty by clear
    \* ---- KV cache rows (memory/kv_cache_core.rs, kv_cache_ops.rs) ----
    kd_quant,        \* KvCacheConfig.enable_quantization of the instance whose rows are followed, unset before new
    kd_entries,      \* per sequence: seq_len, pages held, rows of its Q8 store
    kd_pages,        \* the row the page table yields for a position
    lastRead,        \* the last read_kv call and what it returned
    \* ---- rate limiter, concurrent failures (ipc/auth_session.rs) ----
    caller,          \* per thread: where its failing authenticate call stands
    ws_lock,         \* thread holding the window_start mutex, or None
    fail_calls,      \* authenticate calls started with a wrong token
    fail_returned,   \* calls that have returned InvalidToken
    \* ---- sessions: connection counting ----
    connection_count, \* Session::connection_count of the live sessions, by token
    conn_tracked,    \* track_connection calls that found the session
    conn_released,   \* release_connection calls that found the session
    lastConn,        \* record of the last connection call
    \* ---- PII detector: overlap resolution ----
    pii_matches,     \* the matches detect has found, sorted by start
    pii_result       \* what remove_overlaps returned, empty before the call

queueVars == <<queue, next_id, qnow, sinks, invoked, cancelledOk, qlast>>
authVars  == <<failed_attempts, window_start, blocked_until, sessions, next_session,
               anow, failLog, blockSetAt, lastAuth>>
nonceVars == <<tracker, okSinceTrim, okEver, lastNonce>>
kvVars    == <<sequences, access_order, next_seq_id, free_list, pages_created,
               seqLock, lastKv>>
poolVars  == <<models, active_model, evictions, unregistered, pnow, ptask, lastPool>>
tpVars    == <<worker_queues, global_queue, task_sequence, shutdown, wstate, total_tasks_executed, submitter, lastTp>>
ipcVars   == <<conns, active_connections, lastIpc>>
sanVars   == <<buffer, processed_until, emitted, fed>>
streamVars == <<streams>>
sdVars    == <<main_pc, shutdown_rx, server_pc, socket_bound, accepted, submitted, rq_len, rq_notified, in_flight, worker_pc, worker_shutdown, drain, sdlog>>
regVars   == <<registry, next_handle, rec, recorded>>
auditVars == <<audit_config, audit_events, audit_calls, audit_logged>>
kdVars    == <<kd_quant, kd_entries, kd_pages, lastRead>>
rlVars    == <<caller, ws_lock, fail_calls, fail_returned>>
cnVars    == <<connection_count, conn_tracked, conn_released, lastConn>>
piiVars   == <<pii_matches, pii_result>>
vars      == <<queueVars, authVars, nonceVars, kvVars, poolVars, tpVars,
               ipcVars,
               sanVars,
               streamVars,
               sdVars,
               regVars,
               auditVars,
               kdVars,
               rlVars,
               cnVars,
               piiVars>>

\* absent value of an Option of a number (instants, ids and counts are >= 0)
None == 0 - 1
\* op field of a call record before the first call
NoOp == "none"

Max(a, b) == IF a >= b THEN a ELSE b
Min(a, b) == IF a <= b THEN a ELSE b

\* ceil(a / b) as the least k with k * b >= a
CeilDiv(a, b) == CHOOSE k \in 0..a : k * b >= a /\ \A j \in 0..a : j * b >= a => k <= j

(***************************************************************************)
(*                         REQUEST QUEUE                                   *)
(***************************************************************************)

\* Priority: Low < Normal < High < Critical
Low      == 0
Normal   == 1
High     == 2
Critical == 3
Priorities == {Low, Normal, High, Critical}

\* RequestQueueConfig of the modelled instance
MaxPending       == 2
MaxContextTokens == 2
\* bounds of the exploration
MaxRequests == 3
MaxQTime    == 1
PromptLens  == {8, 9}
EnqPriorities == {Low, Normal, High}
Timeouts    == {None, 0}

\* conservative token estimate of a prompt of len_bytes bytes
estimated_tokens(len_bytes) == (len_bytes + 3) \div 4

\* a request is expired when its deadline (enqueue_time + timeout_ms) has passed
IsExpired_never(r, t) == FALSE
IsExpired(r, t) == r.deadline # None /\ t > r.deadline

IsLive_ignores_cancel(r, t) == ~IsExpired(r, t)
IsLive(r, t) == ~r.cancelled /\ ~IsExpired(r, t)

\* position at which a request of priority p enters q: behind every entry of
\* priority >= p, ahead of every entry of lower priority
InsertPos_back(q, p) == Len(q) + 1
InsertPos(q, p) == Cardinality({i \in 1..Len(q) : q[i].priority >= p}) + 1

InsertAt(q, i, x) == SubSeq(q, 1, i - 1) \o <<x>> \o SubSeq(q, i, Len(q))

QueueInit ==
    /\ queue = <<>>
    /\ next_id = 1
    /\ qnow = 0
    /\ sinks = <<>>
    /\ invoked = {}
    /\ cancelledOk = {}
    /\ qlast = [op |-> NoOp]

\* tier-1 admission decision of enqueue
AdmitResult_off_by_one(size, len_bytes) ==
    IF size > MaxPending THEN "QueueFull"
    ELSE IF estimated_tokens(len_bytes) > MaxContextTokens THEN "ContextExceeded"
    ELSE "Ok"
AdmitResult(size, len_bytes) ==
    IF size >= MaxPending THEN "QueueFull"
    ELSE IF estimated_tokens(len_bytes) > MaxContextTokens THEN "ContextExceeded"
    ELSE "Ok"

Enqueue(len_bytes, prio, timeout) ==
    /\ LET res == AdmitResult(Len(queue), len_bytes)
           req == [id |-> next_id, priority |-> prio,
                   deadline |-> IF timeout = None THEN None ELSE qnow + timeout,
                   cancelled |-> FALSE]
       IN /\ res = "Ok" => next_id <= MaxRequests
          /\ qlast' = [op |-> "enqueue", size |-> Len(queue), len |-> len_bytes,
                         result |-> res, id |-> IF res = "Ok" THEN next_id ELSE 0]
          /\ IF res = "Ok"
             THEN /\ queue' = InsertAt(queue, InsertPos(queue, prio), req)
                  /\ next_id' = next_id + 1
                  /\ sinks' = Append(sinks, "pending")
             ELSE UNCHANGED <<queue, next_id, sinks>>
    /\ UNCHANGED <<qnow, invoked, cancelledOk>>
    /\ UNCHANGED <<authVars, nonceVars, kvVars, poolVars, tpVars, ipcVars, sanVars, streamVars, sdVars, regVars, auditVars, kdVars, rlVars, cnVars, piiVars>>

\* number of leading entries of q that dequeue discards at time t
RECURSIVE DeadPrefix(_, _)
DeadPrefix(q, t) ==
    IF q = <<>> THEN 0
    ELSE IF IsLive(Head(q), t) THEN 0
    ELSE 1 + DeadPrefix(Tail(q), t)

\* sink resolution of a discarded entry
DiscardReason(r) == IF r.cancelled THEN "Cancelled" ELSE "DeadlineExceeded"

\* dequeue, followed by the worker handing the returned request to the Model
Dequeue ==
    /\ queue # <<>>
    /\ LET k    == DeadPrefix(queue, qnow)
           dead == {queue[i].id : i \in 1..k}
           hit  == k < Len(queue)
           ret  == IF hit THEN queue[k + 1] ELSE [id |-> 0]
       IN /\ queue' = IF hit THEN SubSeq(queue, k + 2, Len(queue)) ELSE <<>>
          /\ sinks' = [i \in DOMAIN sinks |->
                         IF \E j \in 1..k : queue[j].id = i
                         THEN DiscardReason(queue[CHOOSE j \in 1..k : queue[j].id = i])
                         ELSE IF hit /\ ret.id = i THEN "Delivered"
                         ELSE sinks[i]]
          /\ invoked' = IF hit THEN invoked \cup {ret.id} ELSE invoked
          /\ qlast' = [op |-> "dequeue", time |-> qnow, before |-> queue,
                         discarded |-> dead, ret |-> ret]
    /\ UNCHANGED <<next_id, qnow, cancelledOk>>
    /\ UNCHANGED <<authVars, nonceVars, kvVars, poolVars, tpVars, ipcVars, sanVars, streamVars, sdVars, regVars, auditVars, kdVars, rlVars, cnVars, piiVars>>

\* cancel(id): mark the entry; true iff the request is still queued
Cancel(id) ==
    /\ id \in 1..(next_id - 1)
    /\ LET found == \E i \in 1..Len(queue) : queue[i].id = id
       IN /\ queue' = [i \in 1..Len(queue) |->
                         IF queue[i].id = id THEN [queue[i] EXCEPT !.cancelled = TRUE]
                         ELSE queue[i]]
          /\ cancelledOk' = IF found THEN cancelledOk \cup {id} ELSE cancelledOk
          /\ qlast' = [op |-> "cancel", id |-> id, result |-> found]
    /\ UNCHANGED <<next_id, qnow, sinks, invoked>>
    /\ UNCHANGED <<authVars, nonceVars, kvVars, poolVars, tpVars, ipcVars, sanVars, streamVars, sdVars, regVars, auditVars, kdVars, rlVars, cnVars, piiVars>>

QueueTick ==
    /\ qnow < MaxQTime
    /\ qnow' = qnow + 1
    /\ qlast' = [op |-> "tick"]
    /\ UNCHANGED <<queue, next_id, sinks, invoked, cancelledOk>>
    /\ UNCHANGED <<authVars, nonceVars, kvVars, poolVars, tpVars, ipcVars, sanVars, streamVars, sdVars, regVars, auditVars, kdVars, rlVars, cnVars, piiVars>>

QueueNext ==
    \/ \E l \in PromptLens, p \in EnqPriorities, t \in Timeouts : Enqueue(l, p, t)
    \/ Dequeue
    \/ \E id \in 1..MaxRequests : Cancel(id)
    \/ QueueTick


(***************************************************************************)
(*                      SESSION AUTHENTICATOR                              *)
(***************************************************************************)

MAX_FAILED_ATTEMPTS == 5
RATE_LIMIT_DURATION == 30
ATTEMPT_WINDOW      == 60

Tokens == {"correct", "wrong"}
\* bounds of the exploration
MaxATime    == 100
MaxSessions == 2
AuthTickSteps == {10, 30}

AuthInit ==
    /\ failed_attempts = 0
    /\ window_start = None
    /\ blocked_until = None
    /\ sessions = <<>>
    /\ next_session = 1
    /\ anow = 0
    /\ failLog = <<>>
    /\ blockSetAt = None
    /\ lastAuth = [op |-> NoOp]

\* RateLimiter::is_rate_limited at instant t
is_rate_limited_never_expires(bu, t) == bu # None
is_rate_limited_off(bu, t) == FALSE
is_rate_limited(bu, t) == bu # None /\ t < bu

\* RateLimiter::record_failure at instant t: the new <<failed_attempts,
\* window_start, blocked_until>>
record_failure(fa, ws, bu, t) ==
    IF ws = None \/ t - ws > ATTEMPT_WINDOW
    THEN <<1, t, bu>>
    ELSE IF fa + 1 >= MAX_FAILED_ATTEMPTS
         THEN <<fa + 1, ws, t + RATE_LIMIT_DURATION>>
         ELSE <<fa + 1, ws, bu>>

\* RateLimiter::reset
reset == <<0, None, None>>

\* constant_time_compare of the SHA-256 digests: equal digests iff equal tokens
constant_time_compare(token, expected) == token = expected

\* Session inserted by authenticate at instant t
NewSession(t) ==
    [created_at |-> t, last_activity |-> t, connection_count |-> 0,
     request_count |-> 0, request_window_start |-> t, ok_times |-> <<>>]

\* failure instants of the limiter window that is open after a failure at t
LogFailure(log, t) ==
    IF log = <<>> \/ t - log[1] > 60 THEN <<t>> ELSE Append(log, t)

\* SessionAuth::authenticate
authenticate(token) ==
    /\ next_session <= MaxSessions
    /\ LET limited == is_rate_limited(blocked_until, anow)
           match   == constant_time_compare(token, "correct")
           rf      == record_failure(failed_attempts, window_start, blocked_until, anow)
           res     == IF limited THEN "RateLimited"
                      ELSE IF ~match THEN "InvalidToken" ELSE "Ok"
       IN /\ lastAuth' = [op |-> "authenticate", time |-> anow, token |-> token,
                          result |-> res,
                          winFails |-> Len(failLog),
                          lastFail |-> IF failLog = <<>> THEN None
                                       ELSE failLog[Len(failLog)],
                          blockSet |-> blockSetAt,
                          before |-> DOMAIN sessions,
                          session |-> IF res = "Ok" THEN next_session ELSE None]
          /\ CASE res = "RateLimited" ->
                    UNCHANGED <<failed_attempts, window_start, blocked_until,
                                sessions, next_session, failLog, blockSetAt>>
               [] res = "InvalidToken" ->
                    /\ failed_attempts' = rf[1]
                    /\ window_start' = rf[2]
                    /\ blocked_until' = rf[3]
                    /\ failLog' = LogFailure(failLog, anow)
                    /\ blockSetAt' = IF rf[3] # blocked_until THEN anow ELSE blockSetAt
                    /\ UNCHANGED <<sessions, next_session>>
               [] res = "Ok" ->
                    /\ failed_attempts' = reset[1]
                    /\ window_start' = reset[2]
                    /\ blocked_until' = reset[3]
                    /\ sessions' = [i \in DOMAIN sessions \cup {next_session} |->
                                       IF i = next_session THEN NewSession(anow)
                                       ELSE sessions[i]]
                    /\ next_session' = next_session + 1
                    /\ failLog' = <<>>
                    /\ blockSetAt' = None
    /\ UNCHANGED anow

Authenticate(token) ==
    /\ authenticate(token)
    /\ UNCHANGED <<queueVars, nonceVars, kvVars, poolVars, tpVars, ipcVars, sanVars, streamVars, sdVars, regVars, auditVars, kdVars, rlVars, cnVars, piiVars>>

AuthTick(d) ==
    /\ anow + d <= MaxATime
    /\ anow' = anow + d
    /\ UNCHANGED <<failed_attempts, window_start, blocked_until, sessions,
                   next_session, failLog, blockSetAt, lastAuth>>
    /\ UNCHANGED <<queueVars, nonceVars, kvVars, poolVars, tpVars, ipcVars, sanVars, streamVars, sdVars, regVars, auditVars, kdVars, rlVars, cnVars, piiVars>>

AuthNext ==
    \/ \E token \in Tokens : Authenticate(token)
    \/ \E d \in AuthTickSteps : AuthTick(d)

(***************************************************************************)
(*                          NONCE TRACKER                                  *)
(***************************************************************************)

\* MAX_NONCE_HISTORY is 10_000 in the source; the model keeps the ratio
\* between the cap and the trimmed half at a size TLC can enumerate
MAX_NONCE_HISTORY == 4
\* the nonces the exploration draws from
NonceSpace == 6
Nonces == 1..NonceSpace

NonceInit ==
    /\ tracker = {}
    /\ okSinceTrim = {}
    /\ okEver = {}
    /\ lastNonce = [op |-> NoOp]

\* the sets `guard.iter().take(MAX_NONCE_HISTORY / 2)` can yield: the
\* iteration order of a HashSet is unspecified
TrimChoices_none(g) == {{}}
TrimChoices(g) ==
    {R \in SUBSET g : Cardinality(R) = Min(MAX_NONCE_HISTORY \div 2, Cardinality(g))}

contains_never(g, n) == FALSE
contains(g, n) == n \in g

check_and_register_nonce(n) ==
    /\ lastNonce' = [op |-> "check_and_register_nonce", nonce |-> n,
                     result |-> IF contains(tracker, n) THEN "NonceReuseDetected" ELSE "Ok",
                     okBefore |-> okEver, okWindow |-> okSinceTrim,
                     sizeBefore |-> Cardinality(tracker)]
    /\ IF contains(tracker, n)
       THEN UNCHANGED <<tracker, okSinceTrim, okEver>>
       ELSE /\ okEver' = okEver \cup {n}
            /\ IF Cardinality(tracker) >= MAX_NONCE_HISTORY
               THEN /\ \E R \in TrimChoices(tracker) : tracker' = (tracker \ R) \cup {n}
                    /\ okSinceTrim' = {n}
               ELSE /\ tracker' = tracker \cup {n}
                    /\ okSinceTrim' = okSinceTrim \cup {n}
    /\ UNCHANGED <<queueVars, authVars, kvVars, poolVars, tpVars, ipcVars, sanVars, streamVars, sdVars, regVars, auditVars, kdVars, rlVars, cnVars, piiVars>>

NonceNext == \E n \in Nonces : check_and_register_nonce(n)


(***************************************************************************)
(*                           PAGED KV CACHE                                *)
(***************************************************************************)

\* token capacity of a page (16 in the source; the model keeps pages small so
\* that page boundaries are crossed within the explored sequence lengths)
PAGE_TOKENS == 2

\* KvCacheConfig of the modelled instance
MaxPages      == 3
WindowSize    == 2
OverlapTokens == 0
\* bounds of the exploration
MaxSeqs        == 2
MaxSeqLen      == 5
EvictPositions == {2, 6}

SeqIds == 1..MaxSeqs

KvInit ==
    /\ sequences = <<>>
    /\ access_order = <<>>
    /\ next_seq_id = 1
    /\ free_list = <<>>
    /\ pages_created = 0
    /\ seqLock = "free"
    /\ lastKv = [op |-> NoOp]

SeqToSet(q) == {q[i] : i \in 1..Len(q)}

RemoveKey(f, k) == [i \in DOMAIN f \ {k} |-> f[i]]

\* VecDeque::retain(|&id| id != x)
RECURSIVE Retain(_, _)
Retain(q, x) ==
    IF q = <<>> THEN <<>>
    ELSE IF Head(q) = x THEN Retain(Tail(q), x)
    ELSE <<Head(q)>> \o Retain(Tail(q), x)

\* PageTable::allocate: <<page id or None, free list, pages created>>
PtAllocate(fl, created) ==
    IF fl # <<>> THEN <<fl[Len(fl)], SubSeq(fl, 1, Len(fl) - 1), created>>
    ELSE IF created < MaxPages THEN <<created, fl, created + 1>>
    ELSE <<None, fl, created>>

\* PageTable::free
PtFree(fl, ids) == fl \o ids

\* every operation on the cache first takes the `sequences` lock; a lock a
\* stuck thread holds is never released, and no call that takes the lock is
\* followed past a panic of a caller
SeqLockAvailable == seqLock = "free"

AllocateSequence ==
    /\ SeqLockAvailable
    /\ next_seq_id <= MaxSeqs
    /\ sequences' = [i \in DOMAIN sequences \cup {next_seq_id} |->
                       IF i = next_seq_id
                       THEN [page_ids |-> <<>>, seq_len |-> 0, evicted |-> FALSE,
                             lost |-> None]
                       ELSE sequences[i]]
    /\ access_order' = Append(access_order, next_seq_id)
    /\ next_seq_id' = next_seq_id + 1
    /\ lastKv' = [op |-> "allocate_sequence"]
    /\ UNCHANGED <<free_list, pages_created, seqLock>>
    /\ UNCHANGED <<queueVars, authVars, nonceVars, poolVars, tpVars, ipcVars, sanVars, streamVars, sdVars, regVars, auditVars, kdVars, rlVars, cnVars, piiVars>>

\* outcomes of taking the `sequences` write lock on the thread that already
\* holds it (std::sync::RwLock::write: deadlock or panic); a panic unwinds the
\* caller out of append_kv with the victim popped from access_order and with
\* `sequences` and the page table as they were before the call
RelockOutcomes == {"Deadlock", "Panic"}

\* append_kv needs a fresh page at seq_pos
NeedsPage_always(entry) == TRUE
NeedsPage(entry) == entry.seq_len % PAGE_TOKENS = 0 \/ entry.page_ids = <<>>

AppendKv(seq) ==
    /\ SeqLockAvailable
    /\ seq \in 1..(next_seq_id - 1)
    /\ IF seq \notin DOMAIN sequences
       THEN /\ lastKv' = [op |-> "append_kv", seq |-> seq, result |-> "SequenceNotFound",
                          tableFull |-> FALSE, victim |-> None]
            /\ UNCHANGED <<sequences, access_order, free_list, pages_created, seqLock>>
       ELSE LET entry == sequences[seq]
                alloc == PtAllocate(free_list, pages_created)
            IN /\ entry.seq_len < MaxSeqLen
               /\ IF ~NeedsPage(entry)
                  THEN \* write into the tail page
                       /\ sequences' = [sequences EXCEPT ![seq].seq_len = @ + 1]
                       /\ lastKv' = [op |-> "append_kv", seq |-> seq, result |-> "Ok",
                                     tableFull |-> FALSE, victim |-> None]
                       /\ UNCHANGED <<access_order, free_list, pages_created, seqLock>>
                  ELSE IF alloc[1] # None
                  THEN \* allocate_page_for: the first allocation succeeds
                       /\ sequences' = [sequences EXCEPT
                                          ![seq].page_ids = Append(@, alloc[1]),
                                          ![seq].seq_len = @ + 1]
                       /\ free_list' = alloc[2]
                       /\ pages_created' = alloc[3]
                       /\ lastKv' = [op |-> "append_kv", seq |-> seq, result |-> "Ok",
                                     tableFull |-> FALSE, victim |-> None]
                       /\ UNCHANGED <<access_order, seqLock>>
                  ELSE IF access_order = <<>>
                  THEN \* evict_lru finds no victim; the retry fails as well
                       /\ lastKv' = [op |-> "append_kv", seq |-> seq,
                                     result |-> "MemoryExhausted",
                                     tableFull |-> TRUE, victim |-> None]
                       /\ UNCHANGED <<sequences, access_order, free_list,
                                      pages_created, seqLock>>
                  ELSE \* evict_lru pops the victim and calls free_sequence, which
                       \* takes the `sequences` write lock append_kv still holds
                       \E o \in RelockOutcomes :
                          /\ access_order' = Tail(access_order)
                          /\ seqLock' = IF o = "Deadlock" THEN "deadlocked" ELSE "panicked"
                          /\ lastKv' = [op |-> "append_kv", seq |-> seq, result |-> o,
                                        tableFull |-> TRUE, victim |-> Head(access_order)]
                          /\ UNCHANGED <<sequences, free_list, pages_created>>
    /\ UNCHANGED next_seq_id
    /\ UNCHANGED <<queueVars, authVars, nonceVars, poolVars, tpVars, ipcVars, sanVars, streamVars, sdVars, regVars, auditVars, kdVars, rlVars, cnVars, piiVars>>

FreeSequence(seq) ==
    /\ SeqLockAvailable
    /\ seq \in 1..(next_seq_id - 1)
    /\ IF seq \notin DOMAIN sequences
       THEN /\ lastKv' = [op |-> "free_sequence"]
            /\ UNCHANGED <<sequences, access_order, free_list>>
       ELSE /\ sequences' = RemoveKey(sequences, seq)
            /\ free_list' = PtFree(free_list, sequences[seq].page_ids)
            /\ access_order' = Retain(access_order, seq)
            /\ lastKv' = [op |-> "free_sequence"]
    /\ UNCHANGED <<next_seq_id, pages_created, seqLock>>
    /\ UNCHANGED <<queueVars, authVars, nonceVars, poolVars, tpVars, ipcVars, sanVars, streamVars, sdVars, regVars, auditVars, kdVars, rlVars, cnVars, piiVars>>

\* the highest logical position held by the i-th of the entry's pages (None
\* for i = 0): the pages of a sequence hold its last Len(page_ids) blocks of
\* PAGE_TOKENS positions, the tail page up to seq_len - 1
LastTokenOfPage(entry, i) ==
    IF i = 0 THEN None
    ELSE LET tail_block == (entry.seq_len - 1) \div PAGE_TOKENS
             block == tail_block - (Len(entry.page_ids) - i)
         IN Min(block * PAGE_TOKENS + PAGE_TOKENS - 1, entry.seq_len - 1)

\* evict_pages_before: <<entry after, pages freed>>; lost is the highest
\* logical position the sequence has lost to the sliding window so far
evict_pages_before_keep(entry, cutoff_token) ==
    LET cutoff_page == cutoff_token \div PAGE_TOKENS
        evict_count == Min(cutoff_page, Len(entry.page_ids))
    IN <<[entry EXCEPT !.evicted = (@ \/ evict_count > 0),
                       !.lost = Max(@, LastTokenOfPage(entry, evict_count))],
         SubSeq(entry.page_ids, 1, evict_count)>>
evict_pages_before(entry, cutoff_token) ==
    LET cutoff_page == cutoff_token \div PAGE_TOKENS
        evict_count == Min(cutoff_page, Len(entry.page_ids))
    IN <<[entry EXCEPT !.page_ids = SubSeq(@, evict_count + 1, Len(@)),
                       !.evicted = (@ \/ evict_count > 0),
                       !.lost = Max(@, LastTokenOfPage(entry, evict_count))],
         SubSeq(entry.page_ids, 1, evict_count)>>

\* evict_beyond_window: first token position that is kept
window_cutoff_wide(current_pos) ==
    Max(current_pos - (WindowSize + OverlapTokens + 2 * PAGE_TOKENS), 0)
window_cutoff(current_pos) ==
    Max(current_pos - (WindowSize + OverlapTokens), 0)

EvictBeyondWindow(seq, current_pos) ==
    /\ seq \in 1..(next_seq_id - 1)
    /\ lastKv' = [op |-> "evict_beyond_window", seq |-> seq, pos |-> current_pos]
    /\ LET cutoff == window_cutoff(current_pos)
       IN IF cutoff = 0
          THEN UNCHANGED <<sequences, free_list>>
          ELSE /\ SeqLockAvailable
               /\ IF seq \notin DOMAIN sequences
                  THEN UNCHANGED <<sequences, free_list>>
                  ELSE LET r == evict_pages_before(sequences[seq], cutoff)
                       IN /\ sequences' = [sequences EXCEPT ![seq] = r[1]]
                          /\ free_list' = PtFree(free_list, r[2])
    /\ UNCHANGED <<access_order, next_seq_id, pages_created, seqLock>>
    /\ UNCHANGED <<queueVars, authVars, nonceVars, poolVars, tpVars, ipcVars, sanVars, streamVars, sdVars, regVars, auditVars, kdVars, rlVars, cnVars, piiVars>>

\* reset: clears the sequences and the access order; the page table is not touched
Reset ==
    /\ SeqLockAvailable
    /\ sequences' = <<>>
    /\ access_order' = <<>>
    /\ lastKv' = [op |-> "reset"]
    /\ UNCHANGED <<next_seq_id, free_list, pages_created, seqLock>>
    /\ UNCHANGED <<queueVars, authVars, nonceVars, poolVars, tpVars, ipcVars, sanVars, streamVars, sdVars, regVars, auditVars, kdVars, rlVars, cnVars, piiVars>>

KvNext ==
    \/ AllocateSequence
    \/ \E seq \in SeqIds : AppendKv(seq)
    \/ \E seq \in SeqIds : FreeSequence(seq)
    \/ \E seq \in SeqIds, pos \in EvictPositions : EvictBeyondWindow(seq, pos)
    \/ Reset

(***************************************************************************)
(*                             MODEL POOL                                  *)
(***************************************************************************)

\* ModelTier
Testing     == 0
DefaultTier == 1
Quality     == 2
ModelTiers  == {Testing, DefaultTier, Quality}

\* PoolConfig of the modelled instance
max_models       == 2
max_memory_bytes == 3
\* the models the callers know: <<id, tier, memory_bytes>> (a model's handle
\* is its id)
ModelIds    == 1..3
PreloadArgs == {<<1, Testing, 1>>, <<2, Quality, 2>>, <<3, DefaultTier, 2>>}
\* concurrent callers of the pool
PoolTasks   == 1..2
\* bounds of the exploration
MaxPTime     == 1
MaxUse       == 1
MaxEvictions == 1

\* stand-in for 2^64 in the order of the scores: larger than every score that
\* does not wrap, so that 2^64 - k is U64Top - k
U64Top == 1000000000

IdleTask == [pc |-> "idle"]

PoolInit ==
    /\ models = <<>>
    /\ active_model = None
    /\ evictions = 0
    /\ unregistered = {}
    /\ pnow = 0
    /\ ptask = [t \in PoolTasks |-> IdleTask]
    /\ lastPool = [op |-> NoOp]

\* models.values().map(|m| m.memory_bytes).sum()
RECURSIVE SumBytes(_, _)
SumBytes(ms, ids) ==
    IF ids = {} THEN 0
    ELSE LET i == CHOOSE x \in ids : TRUE
         IN ms[i].memory_bytes + SumBytes(ms, ids \ {i})
current_memory(ms) == SumBytes(ms, DOMAIN ms)

\* PooledModel::eviction_score as the mathematical value of
\* tier_weight + usage_weight - recency_weight.min(999)
raw_score(m, now) ==
    m.tier * 1000000 + Min(m.use_count, 1000) - Min(now - m.last_used, 999)

\* the u64 result when the subtraction wraps (builds without overflow checks)
eviction_score(m, now) ==
    IF raw_score(m, now) >= 0 THEN raw_score(m, now) ELSE U64Top + raw_score(m, now)

\* what a subtraction below zero does: wrap, or panic with overflow checks
OverflowOutcomes == {"Wrap", "Panic"}

\* models.insert(model_id, PooledModel { .. })
InsertModel(ms, id, tier, bytes, now) ==
    [i \in DOMAIN ms \cup {id} |->
        IF i = id THEN [tier |-> tier, memory_bytes |-> bytes,
                        last_used |-> now, use_count |-> 0]
        ELSE ms[i]]

\* the insertion that ends a preload
FinishPreload(t, id, tier, bytes) ==
    /\ models' = InsertModel(models, id, tier, bytes, pnow)
    /\ ptask' = [ptask EXCEPT ![t] = IdleTask]
    /\ lastPool' = [op |-> "preload", result |-> "Ok",
                    overwrote |-> id \in DOMAIN models,
                    evicted |-> IF ptask[t] = IdleTask THEN 0 ELSE ptask[t].evicted]

\* preload up to its first release of the `models` lock; the task keeps the
\* number of models the call has evicted
PreloadStart(t, id, tier, bytes) ==
    /\ ptask[t] = IdleTask
    /\ IF id \in DOMAIN models
       THEN /\ lastPool' = [op |-> "preload", result |-> "AlreadyLoaded",
                            overwrote |-> FALSE, evicted |-> 0]
            /\ UNCHANGED <<models, ptask>>
       ELSE IF Cardinality(DOMAIN models) >= max_models
       THEN /\ ptask' = [ptask EXCEPT ![t] =
                           [pc |-> "evict_for_count", id |-> id, tier |-> tier,
                            bytes |-> bytes, evicted |-> 0]]
            /\ lastPool' = [op |-> "step"]
            /\ UNCHANGED models
       ELSE IF current_memory(models) + bytes > max_memory_bytes
       THEN /\ ptask' = [ptask EXCEPT ![t] =
                           [pc |-> "evict_for_memory", id |-> id, tier |-> tier,
                            bytes |-> bytes, evicted |-> 0]]
            /\ lastPool' = [op |-> "step"]
            /\ UNCHANGED models
       ELSE FinishPreload(t, id, tier, bytes)
    /\ UNCHANGED <<active_model, evictions, unregistered, pnow>>
    /\ UNCHANGED <<queueVars, authVars, nonceVars, kvVars, tpVars, ipcVars, sanVars, streamVars, sdVars, regVars, auditVars, kdVars, rlVars, cnVars, piiVars>>

\* evict_one, called by preload (count) or by evict_for_memory
EvictOne(t) ==
    /\ ptask[t].pc \in {"evict_for_count", "evict_one_for_memory"}
    /\ LET cand == DOMAIN models \ {active_model}
           wraps == \E i \in cand : raw_score(models[i], pnow) < 0
           tiersOf(S) == {models[i].tier : i \in S}
       IN IF cand = {}
          THEN /\ ptask' = [ptask EXCEPT ![t] = IdleTask]
               /\ lastPool' = [op |-> "preload", result |-> "EvictionFailed",
                               overwrote |-> FALSE, evicted |-> ptask[t].evicted]
               /\ UNCHANGED <<models, evictions, unregistered>>
          ELSE \E o \in OverflowOutcomes :
               IF wraps /\ o = "Panic"
               THEN /\ ptask' = [ptask EXCEPT ![t] = IdleTask]
                    /\ lastPool' = [op |-> "preload", result |-> "Panic",
                                    overwrote |-> FALSE, evicted |-> ptask[t].evicted]
                    /\ UNCHANGED <<models, evictions, unregistered>>
               ELSE \E v \in cand :
                    /\ \A i \in cand :
                          eviction_score(models[v], pnow) <= eviction_score(models[i], pnow)
                    /\ evictions < MaxEvictions
                    /\ models' = RemoveKey(models, v)
                    /\ unregistered' = unregistered \cup {v}
                    /\ evictions' = evictions + 1
                    /\ ptask' = [ptask EXCEPT ![t].pc =
                                    IF @ = "evict_for_count" THEN "memory_check"
                                    ELSE "evict_for_memory",
                                  ![t].evicted = @ + 1]
                    /\ lastPool' = [op |-> "evict_one",
                                    victimTier |-> models[v].tier,
                                    otherTiers |-> tiersOf(cand \ {v})]
    /\ UNCHANGED <<active_model, pnow>>
    /\ UNCHANGED <<queueVars, authVars, nonceVars, kvVars, tpVars, ipcVars, sanVars, streamVars, sdVars, regVars, auditVars, kdVars, rlVars, cnVars, piiVars>>

\* preload after evict_one returned: the lock is taken again and only the
\* memory is checked
PreloadMemoryCheck(t) ==
    /\ ptask[t].pc = "memory_check"
    /\ IF current_memory(models) + ptask[t].bytes > max_memory_bytes
       THEN /\ ptask' = [ptask EXCEPT ![t].pc = "evict_for_memory"]
            /\ lastPool' = [op |-> "step"]
            /\ UNCHANGED models
       ELSE FinishPreload(t, ptask[t].id, ptask[t].tier, ptask[t].bytes)
    /\ UNCHANGED <<active_model, evictions, unregistered, pnow>>
    /\ UNCHANGED <<queueVars, authVars, nonceVars, kvVars, tpVars, ipcVars, sanVars, streamVars, sdVars, regVars, auditVars, kdVars, rlVars, cnVars, piiVars>>

\* one turn of the loop of evict_for_memory: read the total under the read lock
EvictForMemory(t) ==
    /\ ptask[t].pc = "evict_for_memory"
    /\ ptask' = [ptask EXCEPT ![t].pc =
                    IF current_memory(models) + ptask[t].bytes <= max_memory_bytes
                    THEN "insert" ELSE "evict_one_for_memory"]
    /\ lastPool' = [op |-> "step"]
    /\ UNCHANGED <<models, active_model, evictions, unregistered, pnow>>
    /\ UNCHANGED <<queueVars, authVars, nonceVars, kvVars, tpVars, ipcVars, sanVars, streamVars, sdVars, regVars, auditVars, kdVars, rlVars, cnVars, piiVars>>

\* preload after evict_for_memory returned Ok: lock again and insert
PreloadInsert(t) ==
    /\ ptask[t].pc = "insert"
    /\ FinishPreload(t, ptask[t].id, ptask[t].tier, ptask[t].bytes)
    /\ UNCHANGED <<active_model, evictions, unregistered, pnow>>
    /\ UNCHANGED <<queueVars, authVars, nonceVars, kvVars, tpVars, ipcVars, sanVars, streamVars, sdVars, regVars, auditVars, kdVars, rlVars, cnVars, piiVars>>

\* switch_to up to drop(models)
SwitchStart(t, id) ==
    /\ ptask[t] = IdleTask
    /\ IF id \notin DOMAIN models
       THEN /\ lastPool' = [op |-> "switch_to", result |-> "ModelNotFound"]
            /\ UNCHANGED <<models, ptask>>
       ELSE /\ models[id].use_count < MaxUse
            /\ models' = [models EXCEPT ![id].last_used = pnow,
                                        ![id].use_count = @ + 1]
            /\ ptask' = [ptask EXCEPT ![t] = [pc |-> "set_active", id |-> id]]
            /\ lastPool' = [op |-> "step"]
    /\ UNCHANGED <<active_model, evictions, unregistered, pnow>>
    /\ UNCHANGED <<queueVars, authVars, nonceVars, kvVars, tpVars, ipcVars, sanVars, streamVars, sdVars, regVars, auditVars, kdVars, rlVars, cnVars, piiVars>>

\* switch_to from `*self.active_model.write().await = Some(..)` to its return
SwitchSetActive(t) ==
    /\ ptask[t].pc = "set_active"
    /\ active_model' = ptask[t].id
    /\ ptask' = [ptask EXCEPT ![t] = IdleTask]
    /\ lastPool' = [op |-> "switch_to", result |-> "Ok"]
    /\ UNCHANGED <<models, evictions, unregistered, pnow>>
    /\ UNCHANGED <<queueVars, authVars, nonceVars, kvVars, tpVars, ipcVars, sanVars, streamVars, sdVars, regVars, auditVars, kdVars, rlVars, cnVars, piiVars>>

\* remove holds the `models` lock until it returns
PoolRemove(id) ==
    /\ IF id \in DOMAIN models
       THEN /\ models' = RemoveKey(models, id)
            /\ active_model' = IF active_model = id THEN None ELSE active_model
       ELSE UNCHANGED <<models, active_model>>
    /\ lastPool' = [op |-> "remove"]
    /\ UNCHANGED <<evictions, unregistered, pnow, ptask>>
    /\ UNCHANGED <<queueVars, authVars, nonceVars, kvVars, tpVars, ipcVars, sanVars, streamVars, sdVars, regVars, auditVars, kdVars, rlVars, cnVars, piiVars>>

PoolTick ==
    /\ pnow < MaxPTime
    /\ pnow' = pnow + 1
    /\ lastPool' = [op |-> "step"]
    /\ UNCHANGED <<models, active_model, evictions, unregistered, ptask>>
    /\ UNCHANGED <<queueVars, authVars, nonceVars, kvVars, tpVars, ipcVars, sanVars, streamVars, sdVars, regVars, auditVars, kdVars, rlVars, cnVars, piiVars>>

PoolNext ==
    \/ \E t \in PoolTasks, a \in PreloadArgs : PreloadStart(t, a[1], a[2], a[3])
    \/ \E t \in PoolTasks : EvictOne(t)
    \/ \E t \in PoolTasks : PreloadMemoryCheck(t)
    \/ \E t \in PoolTasks : EvictForMemory(t)
    \/ \E t \in PoolTasks : PreloadInsert(t)
    \/ \E t \in PoolTasks, id \in ModelIds : SwitchStart(t, id)
    \/ \E t \in PoolTasks : SwitchSetActive(t)
    \/ \E id \in ModelIds : PoolRemove(id)
    \/ PoolTick


(***************************************************************************)
(*                        WORK-STEALING THREAD POOL                        *)
(***************************************************************************)

\* ThreadPoolConfig of the modelled instance
num_threads          == 2
queue_size           == 2
enable_work_stealing == TRUE
TpWorkers == 0..(num_threads - 1)
\* threads calling submit_with_priority
Submitters == 1..2
\* arguments of the explored submissions: priority of the task and whether the
\* closure panics when it runs
SubmitPriorities == {Normal, High}
\* bound of the exploration: number of submissions that draw a sequence number
MaxTasks == 3

IdleSubmitter == [pc |-> "idle"]

TpInit ==
    /\ worker_queues = [w \in TpWorkers |-> <<>>]
    /\ global_queue = <<>>
    /\ task_sequence = 0
    /\ shutdown = FALSE
    /\ wstate = [w \in TpWorkers |-> "alive"]
    /\ total_tasks_executed = 0
    /\ submitter = [s \in Submitters |-> IdleSubmitter]
    /\ lastTp = [op |-> NoOp]

\* find_least_loaded_worker: index of the first worker with the shortest deque
find_least_loaded_worker(qs) ==
    CHOOSE i \in TpWorkers :
        /\ \A j \in TpWorkers : Len(qs[i]) <= Len(qs[j])
        /\ \A j \in TpWorkers : (j < i) => Len(qs[j]) > Len(qs[i])

\* q.iter().position(..).unwrap_or(q.len()), as a 1-based index
InsertPosition_priority_only(q, t) ==
    IF \E i \in 1..Len(q) : q[i].priority < t.priority
    THEN CHOOSE i \in 1..Len(q) :
            /\ q[i].priority < t.priority
            /\ \A j \in 1..(i - 1) : ~(q[j].priority < t.priority)
    ELSE Len(q) + 1
InsertPosition(q, t) ==
    LET after(x) == \/ x.priority < t.priority
                    \/ (x.priority = t.priority /\ x.sequence > t.sequence)
    IN IF \E i \in 1..Len(q) : after(q[i])
       THEN CHOOSE i \in 1..Len(q) : after(q[i]) /\ \A j \in 1..(i - 1) : ~after(q[j])
       ELSE Len(q) + 1

\* submit_with_priority: the shutdown test and the sequence number, for the
\* first `tasks` submissions
SubmitStartWithin(tasks, s, priority, panics) ==
    /\ submitter[s] = IdleSubmitter
    /\ IF shutdown
       THEN /\ lastTp' = [op |-> "submit", result |-> "PoolShutdown"]
            /\ UNCHANGED <<task_sequence, submitter>>
       ELSE /\ task_sequence < tasks
            /\ task_sequence' = task_sequence + 1
            /\ submitter' = [submitter EXCEPT ![s] =
                               [pc |-> "pick",
                                task |-> [priority |-> priority,
                                          sequence |-> task_sequence,
                                          panics |-> panics]]]
            /\ lastTp' = [op |-> "step"]
    /\ UNCHANGED <<worker_queues, global_queue, shutdown, wstate, total_tasks_executed>>
    /\ UNCHANGED <<queueVars, authVars, nonceVars, kvVars, poolVars, ipcVars, sanVars, streamVars, sdVars, regVars, auditVars, kdVars, rlVars, cnVars, piiVars>>

SubmitStart(s, priority, panics) == SubmitStartWithin(MaxTasks, s, priority, panics)

\* submit_with_priority: find_least_loaded_worker
SubmitPick(s) ==
    /\ submitter[s].pc = "pick"
    /\ submitter' = [submitter EXCEPT ![s] =
                       [pc |-> "insert", task |-> submitter[s].task,
                        target |-> find_least_loaded_worker(worker_queues)]]
    /\ lastTp' = [op |-> "step"]
    /\ UNCHANGED <<worker_queues, global_queue, task_sequence, shutdown, wstate,
                   total_tasks_executed>>
    /\ UNCHANGED <<queueVars, authVars, nonceVars, kvVars, poolVars, ipcVars, sanVars, streamVars, sdVars, regVars, auditVars, kdVars, rlVars, cnVars, piiVars>>

\* submit_with_priority: the chosen deque is locked, tested and extended
SubmitInsert(s) ==
    /\ submitter[s].pc = "insert"
    /\ LET w == submitter[s].target
           t == submitter[s].task
           q == worker_queues[w]
       IN IF Len(q) >= queue_size
          THEN /\ lastTp' = [op |-> "submit", result |-> "QueueFull"]
               /\ UNCHANGED worker_queues
          ELSE /\ worker_queues' = [worker_queues EXCEPT ![w] =
                                      InsertAt(q, InsertPosition(q, t), t)]
               /\ lastTp' = [op |-> "submit", result |-> "Ok", worker |-> w,
                             pos |-> InsertPosition(q, t)]
    /\ submitter' = [submitter EXCEPT ![s] = IdleSubmitter]
    /\ UNCHANGED <<global_queue, task_sequence, shutdown, wstate, total_tasks_executed>>
    /\ UNCHANGED <<queueVars, authVars, nonceVars, kvVars, poolVars, ipcVars, sanVars, streamVars, sdVars, regVars, auditVars, kdVars, rlVars, cnVars, piiVars>>

\* try_steal: <<victim, task>> for the first peer, in index order, with a
\* non-empty deque (its back element), or <<None, None>>
try_steal(worker_id, qs) ==
    LET peers == {i \in TpWorkers : i # worker_id /\ qs[i] # <<>>}
    IN IF peers = {} THEN <<None, None>>
       ELSE LET v == CHOOSE i \in peers : \A j \in peers : i <= j
            IN <<v, qs[v][Len(qs[v])]>>

\* a task leaves the pool: it runs to its end, or it panics and unwinds the
\* worker thread (worker_loop has no catch_unwind)
RunTask(w, t) ==
    IF t.panics
    THEN /\ wstate' = [wstate EXCEPT ![w] = "dead"]
         /\ UNCHANGED total_tasks_executed
    ELSE /\ total_tasks_executed' = total_tasks_executed + 1
         /\ UNCHANGED wstate

\* one turn of worker_loop that finds the shutdown flag clear
WorkerStep(w) ==
    /\ wstate[w] = "alive"
    /\ ~shutdown
    /\ IF worker_queues[w] # <<>>
       THEN /\ worker_queues' = [worker_queues EXCEPT ![w] = Tail(@)]
            /\ RunTask(w, Head(worker_queues[w]))
            /\ lastTp' = [op |-> "worker_own"]
            /\ UNCHANGED global_queue
       ELSE IF global_queue # <<>>
       THEN /\ global_queue' = Tail(global_queue)
            /\ RunTask(w, Head(global_queue))
            /\ lastTp' = [op |-> "worker_global"]
            /\ UNCHANGED worker_queues
       ELSE /\ enable_work_stealing
            /\ try_steal(w, worker_queues)[1] # None
            /\ LET st == try_steal(w, worker_queues)
               IN /\ worker_queues' = [worker_queues EXCEPT ![st[1]] =
                                          SubSeq(@, 1, Len(@) - 1)]
                  /\ RunTask(w, st[2])
            /\ lastTp' = [op |-> "worker_steal"]
            /\ UNCHANGED global_queue
    /\ UNCHANGED <<task_sequence, shutdown, submitter>>
    /\ UNCHANGED <<queueVars, authVars, nonceVars, kvVars, poolVars, ipcVars, sanVars, streamVars, sdVars, regVars, auditVars, kdVars, rlVars, cnVars, piiVars>>

\* the turn of worker_loop that finds the shutdown flag set: the thread returns
WorkerExit(w) ==
    /\ wstate[w] = "alive"
    /\ shutdown
    /\ wstate' = [wstate EXCEPT ![w] = "exited"]
    /\ lastTp' = [op |-> "worker_exit"]
    /\ UNCHANGED <<worker_queues, global_queue, task_sequence, shutdown,
                   total_tasks_executed, submitter>>
    /\ UNCHANGED <<queueVars, authVars, nonceVars, kvVars, poolVars, ipcVars, sanVars, streamVars, sdVars, regVars, auditVars, kdVars, rlVars, cnVars, piiVars>>

signal_shutdown ==
    /\ ~shutdown
    /\ shutdown' = TRUE
    /\ lastTp' = [op |-> "signal_shutdown"]
    /\ UNCHANGED <<worker_queues, global_queue, task_sequence, wstate,
                   total_tasks_executed, submitter>>
    /\ UNCHANGED <<queueVars, authVars, nonceVars, kvVars, poolVars, ipcVars, sanVars, streamVars, sdVars, regVars, auditVars, kdVars, rlVars, cnVars, piiVars>>

TpNext ==
    \/ \E s \in Submitters, p \in SubmitPriorities, panics \in BOOLEAN :
          SubmitStart(s, p, panics)
    \/ \E s \in Submitters : SubmitPick(s)
    \/ \E s \in Submitters : SubmitInsert(s)
    \/ \E w \in TpWorkers : WorkerStep(w)
    \/ \E w \in TpWorkers : WorkerExit(w)
    \/ signal_shutdown

\* the pool under load: submissions of Normal tasks that do not panic, as many
\* as fill every deque, and the workers taking them
MaxLoadTasks == 4

TpLoadNext ==
    \/ \E s \in Submitters : SubmitStartWithin(MaxLoadTasks, s, Normal, FALSE)
    \/ \E s \in Submitters : SubmitPick(s)
    \/ \E s \in Submitters : SubmitInsert(s)
    \/ \E w \in TpWorkers : WorkerStep(w)


(***************************************************************************)
(*                        SESSION VALIDATION                               *)
(***************************************************************************)

\* per-session request limit (1000 in the source; the model keeps it small so
\* that the limit is reached within the explored calls)
MAX_REQUESTS_PER_MINUTE == 2
REQUEST_WINDOW          == 60
\* SessionAuth::new(_, session_timeout) of the modelled instance, in seconds
session_timeout == 80
\* bound of the exploration: value up to which request_count is followed
MaxRequestCount == 3

\* session tokens the explored client presents to validate: the first session
\* it was given and a token that was never issued; its other sessions are only
\* opened and cleaned up
ValidateIds == {0, 1}

\* session.created_at.elapsed() > self.session_timeout
session_expired_never(created_at, t) == FALSE
session_expired(created_at, t) == t - created_at > session_timeout

\* the last MAX_REQUESTS_PER_MINUTE + 1 instants at which validate returned Ok
LogOk(log, t) ==
    IF Len(log) <= MAX_REQUESTS_PER_MINUTE THEN Append(log, t)
    ELSE Append(Tail(log), t)

\* SessionAuth::validate
validate(id) ==
    /\ IF id \notin DOMAIN sessions
       THEN /\ lastAuth' = [op |-> "validate", time |-> anow, id |-> id,
                            result |-> "SessionNotFound", age |-> None]
            /\ UNCHANGED sessions
       ELSE LET s == sessions[id]
                should_reset == \/ s.request_window_start = None
                                \/ anow - s.request_window_start > REQUEST_WINDOW
            IN IF session_expired(s.created_at, anow)
               THEN /\ sessions' = RemoveKey(sessions, id)
                    /\ lastAuth' = [op |-> "validate", time |-> anow, id |-> id,
                                    result |-> "SessionExpired",
                                    age |-> anow - s.created_at]
               ELSE IF should_reset
               THEN /\ sessions' = [sessions EXCEPT ![id] =
                                       [s EXCEPT !.request_count = 1,
                                                 !.request_window_start = anow,
                                                 !.last_activity = anow,
                                                 !.ok_times = LogOk(@, anow)]]
                    /\ lastAuth' = [op |-> "validate", time |-> anow, id |-> id,
                                    result |-> "Ok", age |-> anow - s.created_at]
               ELSE /\ s.request_count < MaxRequestCount
                    /\ IF s.request_count + 1 > MAX_REQUESTS_PER_MINUTE
                       THEN /\ sessions' = [sessions EXCEPT ![id].request_count = @ + 1]
                            /\ lastAuth' = [op |-> "validate", time |-> anow, id |-> id,
                                            result |-> "SessionRateLimited",
                                            age |-> anow - s.created_at]
                       ELSE /\ sessions' = [sessions EXCEPT ![id] =
                                               [s EXCEPT !.request_count = @ + 1,
                                                         !.last_activity = anow,
                                                         !.ok_times = LogOk(@, anow)]]
                            /\ lastAuth' = [op |-> "validate", time |-> anow, id |-> id,
                                            result |-> "Ok", age |-> anow - s.created_at]
    /\ UNCHANGED <<failed_attempts, window_start, blocked_until, next_session, anow,
                   failLog, blockSetAt>>

Validate(id) ==
    /\ validate(id)
    /\ UNCHANGED <<queueVars, nonceVars, kvVars, poolVars, tpVars, ipcVars, sanVars, streamVars, sdVars, regVars, auditVars, kdVars, rlVars, cnVars, piiVars>>

\* cleanup: sessions.retain(|_, s| s.created_at.elapsed() <= timeout)
Cleanup ==
    /\ sessions' = [i \in {j \in DOMAIN sessions :
                              ~session_expired(sessions[j].created_at, anow)}
                      |-> sessions[i]]
    /\ lastAuth' = [op |-> "cleanup", time |-> anow,
                    before |-> [i \in DOMAIN sessions |-> sessions[i].created_at]]
    /\ UNCHANGED <<failed_attempts, window_start, blocked_until, next_session, anow,
                   failLog, blockSetAt>>
    /\ UNCHANGED <<queueVars, nonceVars, kvVars, poolVars, tpVars, ipcVars, sanVars, streamVars, sdVars, regVars, auditVars, kdVars, rlVars, cnVars, piiVars>>

\* a client that holds the handshake token opens sessions and uses them
SessionNext ==
    \/ Authenticate("correct")
    \/ \E id \in ValidateIds : Validate(id)
    \/ Cleanup
    \/ \E d \in AuthTickSteps : AuthTick(d)


(***************************************************************************)
(*                        IPC CONNECTION LOOP                              *)
(***************************************************************************)

\* client connections that come and go
Conns == 1..3
\* cap of the ConnectionPool of the modelled instance
max_connections == 2
\* Maximum allowed message frame size (16 MB)
MAX_FRAME_SIZE == 16 * 1024 * 1024
\* frames a client sends, with the length their 4-byte prefix declares: a
\* Handshake with a token, a request that needs a session (inference, cancel,
\* warmup, models, metrics) or bytes that do not decode
Frames == {[kind |-> "Handshake", token |-> "correct", len |-> 64],
           [kind |-> "Handshake", token |-> "wrong", len |-> 64],
           [kind |-> "Handshake", token |-> "correct", len |-> MAX_FRAME_SIZE + 1],
           [kind |-> "Request", token |-> "", len |-> 64],
           [kind |-> "Request", token |-> "", len |-> MAX_FRAME_SIZE],
           [kind |-> "Request", token |-> "", len |-> MAX_FRAME_SIZE + 1],
           [kind |-> "Malformed", token |-> "", len |-> 64]}

\* handle_connection starts with `let mut session = None` and owns the guard
FreshConn == [open |-> TRUE, session |-> None, handshaken |-> FALSE, guard |-> TRUE]
\* a client that is not connected
NoConn == [open |-> FALSE, session |-> None, handshaken |-> FALSE, guard |-> FALSE]

IpcInit ==
    /\ conns = [c \in Conns |-> NoConn]
    /\ active_connections = 0
    /\ lastIpc = [op |-> NoOp]

\* ConnectionPool::try_acquire_owned: a guard while the cap is not reached
try_acquire_owned(active) == active < max_connections

\* dropping the OwnedConnectionGuard gives the slot back
DropGuard(conn, active) == IF conn.guard THEN active - 1 ELSE active

\* handle_connection returns: the stream and the guard are dropped
EndConnection(c) ==
    /\ conns' = [conns EXCEPT ![c] = NoConn]
    /\ active_connections' = DropGuard(conns[c], active_connections)

\* read_frame: the declared length is checked before the payload is read
read_frame_any_length(f) == "Ok"
read_frame(f) == IF f.len > MAX_FRAME_SIZE THEN "FrameTooLarge" ELSE "Ok"

\* the session handle_connection passes to handler.process: its own
SessionArg_of_any_connection(c) ==
    IF \E d \in Conns : conns[d].session # None
    THEN conns[CHOOSE d \in Conns : conns[d].session # None].session
    ELSE None
SessionArg(c) == conns[c].session

\* `if new_session.is_some() { session = new_session; }`
AdoptSession(session, new_session) ==
    IF new_session # None THEN new_session ELSE session

\* one turn of the loop of handle_connection for a Handshake frame:
\* handler.process authenticates the token
ServeHandshake(c, f) ==
    /\ conns[c].open
    /\ read_frame(f) = "Ok"
    /\ f.kind = "Handshake"
    /\ authenticate(f.token)
    /\ LET new_session == lastAuth'.session
       IN /\ conns' = [conns EXCEPT ![c].session = AdoptSession(@, new_session),
                                    ![c].handshaken = (@ \/ new_session # None)]
          /\ lastIpc' = [op |-> "frame", conn |-> c, kind |-> f.kind, len |-> f.len,
                         reply |-> IF new_session # None THEN "HandshakeAck"
                                   ELSE "Error",
                         session |-> None]
    /\ UNCHANGED active_connections
    /\ UNCHANGED <<queueVars, nonceVars, kvVars, poolVars, tpVars, sanVars, streamVars, sdVars, regVars, auditVars, kdVars, rlVars, cnVars, piiVars>>

\* a frame other than Handshake on a connection without a session: refused
RefuseRequest(c, f) ==
    /\ conns[c].open
    /\ read_frame(f) = "Ok"
    /\ f.kind = "Request"
    /\ SessionArg(c) = None
    /\ lastIpc' = [op |-> "frame", conn |-> c, kind |-> f.kind, len |-> f.len, reply |-> "Error",
                   session |-> None]
    /\ UNCHANGED <<conns, active_connections, authVars>>
    /\ UNCHANGED <<queueVars, nonceVars, kvVars, poolVars, tpVars, sanVars, streamVars, sdVars, regVars, auditVars, kdVars, rlVars, cnVars, piiVars>>

\* a frame other than Handshake on a connection with a session: served when
\* validate(session) returns Ok
ServeRequest(c, f) ==
    /\ conns[c].open
    /\ read_frame(f) = "Ok"
    /\ f.kind = "Request"
    /\ SessionArg(c) # None
    /\ validate(SessionArg(c))
    /\ lastIpc' = [op |-> "frame", conn |-> c, kind |-> f.kind, len |-> f.len,
                   reply |-> IF lastAuth'.result = "Ok" THEN "Served" ELSE "Error",
                   session |-> SessionArg(c)]
    /\ UNCHANGED <<conns, active_connections>>
    /\ UNCHANGED <<queueVars, nonceVars, kvVars, poolVars, tpVars, sanVars, streamVars, sdVars, regVars, auditVars, kdVars, rlVars, cnVars, piiVars>>

\* handler.process returns Err: the error frame is written and the loop ends
ServeMalformed(c, f) ==
    /\ conns[c].open
    /\ read_frame(f) = "Ok"
    /\ f.kind = "Malformed"
    /\ EndConnection(c)
    /\ lastIpc' = [op |-> "frame", conn |-> c, kind |-> f.kind, len |-> f.len, reply |-> "Error500",
                   session |-> None]
    /\ UNCHANGED authVars
    /\ UNCHANGED <<queueVars, nonceVars, kvVars, poolVars, tpVars, sanVars, streamVars, sdVars, regVars, auditVars, kdVars, rlVars, cnVars, piiVars>>

\* read_frame returns FrameTooLarge: the loop ends before handler.process
RejectFrame(c, f) ==
    /\ conns[c].open
    /\ read_frame(f) = "FrameTooLarge"
    /\ EndConnection(c)
    /\ lastIpc' = [op |-> "read_error", conn |-> c, len |-> f.len,
                   others |-> [d \in Conns \ {c} |-> conns[d]]]
    /\ UNCHANGED authVars
    /\ UNCHANGED <<queueVars, nonceVars, kvVars, poolVars, tpVars, sanVars, streamVars, sdVars, regVars, auditVars, kdVars, rlVars, cnVars, piiVars>>

\* read_frame meets the end of the stream: the loop ends
Disconnect(c) ==
    /\ conns[c].open
    /\ EndConnection(c)
    /\ lastIpc' = [op |-> "disconnect", conn |-> c]
    /\ UNCHANGED authVars
    /\ UNCHANGED <<queueVars, nonceVars, kvVars, poolVars, tpVars, sanVars, streamVars, sdVars, regVars, auditVars, kdVars, rlVars, cnVars, piiVars>>

\* spawn_connection: the handler task is spawned only with a guard
spawn_connection_without_guard(guard) == TRUE
spawn_connection(guard) == guard

\* the accept loop takes the connection of client c and calls spawn_connection;
\* without a guard the stream is dropped
Accept(c) ==
    /\ ~conns[c].open
    /\ LET guard == try_acquire_owned(active_connections)
           served == spawn_connection(guard)
       IN /\ conns' = [conns EXCEPT ![c] =
                          IF served THEN [FreshConn EXCEPT !.guard = guard]
                          ELSE NoConn]
          /\ active_connections' = IF guard THEN active_connections + 1
                                   ELSE active_connections
          /\ lastIpc' = [op |-> "accept", conn |-> c, served |-> served,
                         before |-> active_connections]
    /\ UNCHANGED authVars
    /\ UNCHANGED <<queueVars, nonceVars, kvVars, poolVars, tpVars, sanVars, streamVars, sdVars, regVars, auditVars, kdVars, rlVars, cnVars, piiVars>>

IpcNext ==
    \/ \E c \in Conns, f \in Frames : ServeHandshake(c, f)
    \/ \E c \in Conns, f \in Frames : RefuseRequest(c, f)
    \/ \E c \in Conns, f \in Frames : ServeRequest(c, f)
    \/ \E c \in Conns, f \in Frames : ServeMalformed(c, f)
    \/ \E c \in Conns, f \in Frames : RejectFrame(c, f)
    \/ \E c \in Conns : Disconnect(c)
    \/ \E c \in Conns : Accept(c)


(***************************************************************************)
(*                       STREAMING OUTPUT SANITIZER                        *)
(***************************************************************************)

\* characters of the streamed text: `p` `q` in this order stand for a string
\* the PII detector matches (a fixed-length pattern such as an SSN), `x` for
\* any other character and ` ` for whitespace
Alphabet == {"x", " ", "p", "q"}
Pii      == <<"p", "q">>
\* format!("[REDACTED:{}]", m.pii_type.name())
Redacted == <<"[", "R", "]">>
\* bounds of the exploration: characters fed in all, characters per chunk
MaxTextLen  == 4
MaxChunkLen == 3

\* the chunks a caller feeds: the non-empty strings of up to MaxChunkLen characters
Chunks == UNION {[1..n -> Alphabet] : n \in 1..MaxChunkLen}

\* StreamingSanitizerState::default()
SanInit ==
    /\ buffer = <<>>
    /\ processed_until = 0
    /\ emitted = <<>>
    /\ fed = <<>>

\* PIIDetector::detect: the matches of the pattern from left to right, without
\* overlaps, as byte ranges start..end
RECURSIVE detect_from(_, _)
detect_from(text, i) ==
    IF i + Len(Pii) > Len(text) THEN <<>>
    ELSE IF SubSeq(text, i + 1, i + Len(Pii)) = Pii
    THEN <<[start |-> i, end |-> i + Len(Pii)]>> \o detect_from(text, i + Len(Pii))
    ELSE detect_from(text, i + 1)
detect(text) == detect_from(text, 0)

\* String::replace_range(a..b, r)
replace_range(s, a, b, r) == SubSeq(s, 1, a) \o r \o SubSeq(s, b + 1, Len(s))

\* the loop over the matches in sanitize_chunk: <<result, processed_until>>
RECURSIVE redact_matches(_, _, _, _)
redact_matches(ms, result, until, buffer_len) ==
    IF ms = <<>> THEN <<result, until>>
    ELSE LET m == Head(ms)
             chunk_start == Max(m.start - until, 0)
             chunk_end   == Max(m.end - until, 0)
         IN IF m.start >= until /\ m.end <= buffer_len
            THEN redact_matches(Tail(ms),
                     IF chunk_start < Len(result) /\ chunk_end <= Len(result)
                     THEN replace_range(result, chunk_start, chunk_end, Redacted)
                     ELSE result,
                     m.end, buffer_len)
            ELSE redact_matches(Tail(ms), result, until, buffer_len)

\* thresholds of the buffer trim
TRIM_ABOVE     == 1000
TRIM_KEEP      == 500
MAX_PII_LENGTH == 100
TRIM_SEARCH    == 20

\* c.is_whitespace() || c == '.' || c == ',' || c == ';' || c == ':'
is_boundary(c) == c \in {" ", ".", ",", ";", ":"}

SetMax(S) == CHOOSE m \in S : \A n \in S : n <= m

\* find_safe_trim_point
find_safe_trim_point(buf, max_trim) ==
    IF Len(buf) <= MAX_PII_LENGTH THEN 0
    ELSE LET candidate    == Min(max_trim, Len(buf) - MAX_PII_LENGTH)
             search_start == Max(candidate - TRIM_SEARCH, 0)
             search_end   == Min(candidate + TRIM_SEARCH, Len(buf))
             found        == {i \in search_start..(search_end - 1) : is_boundary(buf[i + 1])}
         IN IF found # {} /\ SetMax(found \cup {0}) > 0 /\ SetMax(found \cup {0}) <= max_trim
            THEN SetMax(found)
            ELSE Min(Max(Len(buf) - MAX_PII_LENGTH * 2, 0), max_trim)

\* sanitize_chunk(chunk, state); `emitted` collects what the calls return and
\* `fed` what they were given
SanitizeChunk(chunk) ==
    /\ Len(fed) + Len(chunk) <= MaxTextLen
    /\ LET buf  == buffer \o chunk
           r    == redact_matches(detect(buf), chunk, processed_until, Len(buf))
           trim == IF Len(buf) > TRIM_ABOVE
                   THEN find_safe_trim_point(buf, Len(buf) - TRIM_KEEP)
                   ELSE 0
       IN /\ buffer' = SubSeq(buf, trim + 1, Len(buf))
          /\ processed_until' = Max(r[2] - trim, 0)
          /\ emitted' = emitted \o r[1]
    /\ fed' = fed \o chunk
    /\ UNCHANGED <<queueVars, authVars, nonceVars, kvVars, poolVars, tpVars, ipcVars, streamVars, sdVars, regVars, auditVars, kdVars, rlVars, cnVars, piiVars>>

SanNext == \E chunk \in Chunks : SanitizeChunk(chunk)


(***************************************************************************)
(*                         FFI STREAMING INFERENCE                         *)
(***************************************************************************)

\* calls of core_infer_streaming in progress at the same time, each with its
\* own CallbackInvoker
Streams == 1..2

\* what a call is given: arguments the checks before the streaming stage
\* refuse, or a prompt with or without tokens
StreamArgs == {"NullPointer", "InvalidSession", "InvalidUtf8", "TooManyTokens",
               "Tokens", "NoTokens"}
\* outcomes of inference_engine.run
RunOutcomes == {"Ok", "Err"}

\* a call that has not started
IdleStream == [pc |-> "idle", tokens |-> FALSE, cancelled |-> FALSE,
               callbacks |-> <<>>, streamed |-> FALSE, code |-> NoOp]

StreamInit ==
    /\ streams = [s \in Streams |-> IdleStream]

\* CallbackInvoker::invoke; returned is what the C callback answers
invoke_skipped(st, is_final, error, returned) == st
invoke(st, is_final, error, returned) ==
    IF st.cancelled THEN st
    ELSE [st EXCEPT !.callbacks = Append(@, [is_final |-> is_final, error |-> error,
                                             returned |-> returned]),
                    !.cancelled = ~returned]

\* core_infer_streaming up to the call of stream_inference
CoreInferStreaming(s, arg) ==
    /\ streams[s].pc = "idle"
    /\ streams' = [streams EXCEPT ![s] =
          IF arg = "NullPointer" THEN [@ EXCEPT !.pc = "returned", !.code = "NullPointer"]
          ELSE IF arg = "InvalidSession" THEN [@ EXCEPT !.pc = "returned", !.code = "AuthError"]
          ELSE IF arg \in {"InvalidUtf8", "TooManyTokens"}
          THEN [@ EXCEPT !.pc = "returned", !.code = "InvalidParams"]
          ELSE [@ EXCEPT !.pc = "stream_inference", !.tokens = (arg = "Tokens"),
                         !.cancelled = FALSE, !.streamed = TRUE]]
    /\ UNCHANGED <<queueVars, authVars, nonceVars, kvVars, poolVars, tpVars, ipcVars, sanVars, sdVars, regVars, auditVars, kdVars, rlVars, cnVars, piiVars>>

\* stream_inference: fails fast on tokens, runs the inference and sends the
\* completion callback
StreamInference(s, run, returned) ==
    /\ streams[s].pc = "stream_inference"
    /\ streams' = [streams EXCEPT ![s] =
          IF @.tokens THEN [@ EXCEPT !.pc = "result_err", !.code = "InvalidParams"]
          ELSE IF run = "Err" THEN [@ EXCEPT !.pc = "result_err", !.code = "InferenceError"]
          ELSE [invoke(@, TRUE, FALSE, returned) EXCEPT !.pc = "result_ok"]]
    /\ UNCHANGED <<queueVars, authVars, nonceVars, kvVars, poolVars, tpVars, ipcVars, sanVars, sdVars, regVars, auditVars, kdVars, rlVars, cnVars, piiVars>>

\* core_infer_streaming, `match result`, Ok(())
ReturnOk(s) ==
    /\ streams[s].pc = "result_ok"
    /\ streams' = [streams EXCEPT ![s].pc = "returned",
                                  ![s].code = IF streams[s].cancelled THEN "Cancelled"
                                              ELSE "Ok"]
    /\ UNCHANGED <<queueVars, authVars, nonceVars, kvVars, poolVars, tpVars, ipcVars, sanVars, sdVars, regVars, auditVars, kdVars, rlVars, cnVars, piiVars>>

\* core_infer_streaming, `match result`, Err(e): the error goes to the callback
ReturnErr(s, returned) ==
    /\ streams[s].pc = "result_err"
    /\ streams' = [streams EXCEPT ![s] =
                      [invoke(@, TRUE, TRUE, returned) EXCEPT !.pc = "returned"]]
    /\ UNCHANGED <<queueVars, authVars, nonceVars, kvVars, poolVars, tpVars, ipcVars, sanVars, sdVars, regVars, auditVars, kdVars, rlVars, cnVars, piiVars>>

StreamNext ==
    \/ \E s \in Streams, arg \in StreamArgs : CoreInferStreaming(s, arg)
    \/ \E s \in Streams, run \in RunOutcomes, returned \in BOOLEAN :
          StreamInference(s, run, returned)
    \/ \E s \in Streams : ReturnOk(s)
    \/ \E s \in Streams, returned \in BOOLEAN : ReturnErr(s, returned)


(***************************************************************************)
(*                          RUNTIME SHUTDOWN                               *)
(***************************************************************************)

\* bounds of the exploration: connections accepted and requests submitted
MaxAccepted  == 2
MaxSubmitted == 2

\* run_ipc_server has spawned the worker and the server and awaits ctrl_c
SdInit ==
    /\ main_pc = "await_signal"
    /\ shutdown_rx = FALSE
    /\ server_pc = "accepting"
    /\ socket_bound = TRUE
    /\ accepted = 0
    /\ submitted = 0
    /\ rq_len = 0
    /\ rq_notified = FALSE
    /\ in_flight = 0
    /\ worker_pc = "idle"
    /\ worker_shutdown = FALSE
    /\ drain = [result |-> NoOp, remaining |-> 0, expired |-> FALSE]
    /\ sdlog = [parked_at_cancel |-> FALSE, woken |-> FALSE]

mainVars   == <<main_pc, drain, sdlog>>
serverVars == <<server_pc, socket_bound, accepted, shutdown_rx>>
workVars   == <<submitted, rq_len, rq_notified, in_flight, worker_pc, worker_shutdown>>

\* ---- the accept loop of run_server ----

\* listener.accept() -> spawn_connection
SdAccept ==
    /\ server_pc = "accepting"
    /\ accepted < MaxAccepted
    /\ accepted' = accepted + 1
    /\ UNCHANGED <<server_pc, socket_bound, shutdown_rx, mainVars, workVars>>
    /\ UNCHANGED <<queueVars, authVars, nonceVars, kvVars, poolVars, tpVars, ipcVars, sanVars, streamVars, regVars, auditVars, kdVars, rlVars, cnVars, piiVars>>

\* shutdown_rx.changed(): the loop breaks, the socket file is removed and
\* run_server returns
ServerStop ==
    /\ server_pc = "accepting"
    /\ shutdown_rx
    /\ server_pc' = "returned"
    /\ socket_bound' = FALSE
    /\ UNCHANGED <<accepted, shutdown_rx, mainVars, workVars>>
    /\ UNCHANGED <<queueVars, authVars, nonceVars, kvVars, poolVars, tpVars, ipcVars, sanVars, streamVars, regVars, auditVars, kdVars, rlVars, cnVars, piiVars>>

\* ---- requests and the worker ----

\* a connection submits a request: it is queued and counted as in flight
SdEnqueue ==
    /\ accepted > 0
    /\ submitted < MaxSubmitted
    /\ submitted' = submitted + 1
    /\ rq_len' = rq_len + 1
    /\ in_flight' = in_flight + 1
    /\ rq_notified' = TRUE
    /\ UNCHANGED <<worker_pc, worker_shutdown, mainVars, serverVars>>
    /\ UNCHANGED <<queueVars, authVars, nonceVars, kvVars, poolVars, tpVars, ipcVars, sanVars, streamVars, regVars, auditVars, kdVars, rlVars, cnVars, piiVars>>

\* the worker leaves its loop once its shutdown token is cancelled
should_exit_never(token_cancelled) == FALSE
should_exit(token_cancelled) == token_cancelled

WorkerStop ==
    /\ worker_pc = "idle"
    /\ should_exit(worker_shutdown)
    /\ worker_pc' = "exited"
    /\ UNCHANGED <<submitted, rq_len, rq_notified, in_flight, worker_shutdown,
                   mainVars, serverVars>>
    /\ UNCHANGED <<queueVars, authVars, nonceVars, kvVars, poolVars, tpVars, ipcVars, sanVars, streamVars, regVars, auditVars, kdVars, rlVars, cnVars, piiVars>>

\* the worker takes the next request
WorkerDequeue ==
    /\ worker_pc = "idle"
    /\ rq_len > 0
    /\ worker_pc' = "running"
    /\ rq_len' = rq_len - 1
    /\ UNCHANGED <<submitted, rq_notified, in_flight, worker_shutdown,
                   mainVars, serverVars>>
    /\ UNCHANGED <<queueVars, authVars, nonceVars, kvVars, poolVars, tpVars, ipcVars, sanVars, streamVars, regVars, auditVars, kdVars, rlVars, cnVars, piiVars>>

\* the worker delivers the result through the request's sink
WorkerFinish ==
    /\ worker_pc = "running"
    /\ worker_pc' = "idle"
    /\ in_flight' = in_flight - 1
    /\ UNCHANGED <<submitted, rq_len, rq_notified, worker_shutdown,
                   mainVars, serverVars>>
    /\ UNCHANGED <<queueVars, authVars, nonceVars, kvVars, poolVars, tpVars, ipcVars, sanVars, streamVars, regVars, auditVars, kdVars, rlVars, cnVars, piiVars>>

\* nothing is queued: the worker waits on the queue and on its token
WorkerPark ==
    /\ worker_pc = "idle"
    /\ rq_len = 0
    /\ ~worker_shutdown
    /\ worker_pc' = "parked"
    /\ UNCHANGED <<submitted, rq_len, rq_notified, in_flight, worker_shutdown,
                   mainVars, serverVars>>
    /\ UNCHANGED <<queueVars, authVars, nonceVars, kvVars, poolVars, tpVars, ipcVars, sanVars, streamVars, regVars, auditVars, kdVars, rlVars, cnVars, piiVars>>

\* the wait ends on a notification of the queue (enqueue, wake) or on the
\* cancellation of the token, whichever comes first
WorkerUnpark ==
    /\ worker_pc = "parked"
    /\ rq_notified \/ worker_shutdown
    /\ worker_pc' = "idle"
    /\ rq_notified' = FALSE
    /\ UNCHANGED <<submitted, rq_len, in_flight, worker_shutdown,
                   mainVars, serverVars>>
    /\ UNCHANGED <<queueVars, authVars, nonceVars, kvVars, poolVars, tpVars, ipcVars, sanVars, streamVars, regVars, auditVars, kdVars, rlVars, cnVars, piiVars>>

\* ---- run_ipc_server after the signal ----

\* tokio::signal::ctrl_c() returns; shutdown_tx.send(true)
SignalServer ==
    /\ main_pc = "await_signal"
    /\ main_pc' = "draining"
    /\ shutdown_rx' = TRUE
    /\ UNCHANGED <<drain, sdlog, server_pc, socket_bound, accepted, workVars>>
    /\ UNCHANGED <<queueVars, authVars, nonceVars, kvVars, poolVars, tpVars, ipcVars, sanVars, streamVars, regVars, auditVars, kdVars, rlVars, cnVars, piiVars>>

\* shutdown-timeout runs out while shutdown.initiate waits
DrainTimerExpires ==
    /\ main_pc = "draining"
    /\ ~drain.expired
    /\ drain' = [drain EXCEPT !.expired = TRUE]
    /\ UNCHANGED <<main_pc, sdlog, serverVars, workVars>>
    /\ UNCHANGED <<queueVars, authVars, nonceVars, kvVars, poolVars, tpVars, ipcVars, sanVars, streamVars, regVars, auditVars, kdVars, rlVars, cnVars, piiVars>>

\* shutdown.initiate(shutdown_timeout) returns: Complete when nothing is in
\* flight, Timeout { remaining } when the timeout has run out
InitiateReturns ==
    /\ main_pc = "draining"
    /\ in_flight = 0 \/ drain.expired
    /\ main_pc' = "drained"
    /\ drain' = [drain EXCEPT !.result = IF in_flight = 0 THEN "Complete" ELSE "Timeout",
                              !.remaining = in_flight]
    /\ UNCHANGED <<sdlog, serverVars, workVars>>
    /\ UNCHANGED <<queueVars, authVars, nonceVars, kvVars, poolVars, tpVars, ipcVars, sanVars, streamVars, regVars, auditVars, kdVars, rlVars, cnVars, piiVars>>

\* where run_ipc_server stands when it calls worker_shutdown.cancel()
cancel_point_early(pc) == pc \in {"draining", "drained"}
cancel_point(pc) == pc = "drained"

\* worker_shutdown.cancel()
CancelWorker ==
    /\ cancel_point(main_pc)
    /\ main_pc' = "cancelled"
    /\ worker_shutdown' = TRUE
    /\ sdlog' = [sdlog EXCEPT !.parked_at_cancel = (worker_pc = "parked")]
    /\ UNCHANGED <<drain, submitted, rq_len, rq_notified, in_flight, worker_pc, serverVars>>
    /\ UNCHANGED <<queueVars, authVars, nonceVars, kvVars, poolVars, tpVars, ipcVars, sanVars, streamVars, regVars, auditVars, kdVars, rlVars, cnVars, piiVars>>

\* runtime.request_queue.wake()
WakeQueue ==
    /\ main_pc = "cancelled"
    /\ main_pc' = "join_worker"
    /\ rq_notified' = TRUE
    /\ sdlog' = [sdlog EXCEPT !.woken = TRUE]
    /\ UNCHANGED <<drain, submitted, rq_len, in_flight, worker_pc, worker_shutdown, serverVars>>
    /\ UNCHANGED <<queueVars, authVars, nonceVars, kvVars, poolVars, tpVars, ipcVars, sanVars, streamVars, regVars, auditVars, kdVars, rlVars, cnVars, piiVars>>

\* worker_handle.await
JoinWorker ==
    /\ main_pc = "join_worker"
    /\ worker_pc = "exited"
    /\ main_pc' = "join_server"
    /\ UNCHANGED <<drain, sdlog, serverVars, workVars>>
    /\ UNCHANGED <<queueVars, authVars, nonceVars, kvVars, poolVars, tpVars, ipcVars, sanVars, streamVars, regVars, auditVars, kdVars, rlVars, cnVars, piiVars>>

\* server_handle.await
JoinServer ==
    /\ main_pc = "join_server"
    /\ server_pc = "returned"
    /\ main_pc' = "done"
    /\ UNCHANGED <<drain, sdlog, serverVars, workVars>>
    /\ UNCHANGED <<queueVars, authVars, nonceVars, kvVars, poolVars, tpVars, ipcVars, sanVars, streamVars, regVars, auditVars, kdVars, rlVars, cnVars, piiVars>>

WorkerNext == WorkerStop \/ WorkerDequeue \/ WorkerFinish \/ WorkerPark \/ WorkerUnpark

SdNext ==
    \/ SdAccept
    \/ ServerStop
    \/ SdEnqueue
    \/ WorkerStop
    \/ WorkerDequeue
    \/ WorkerFinish
    \/ WorkerPark
    \/ WorkerUnpark
    \/ SignalServer
    \/ DrainTimerExpires
    \/ InitiateReturns
    \/ CancelWorker
    \/ WakeQueue
    \/ JoinWorker
    \/ JoinServer


(***************************************************************************)
(*                           MODEL REGISTRY                                *)
(***************************************************************************)

\* LoadedModelState
ModelStates == {"Loading", "Ready", "Unloading", "Error"}
\* tasks calling record_request at the same time
RecTasks  == 1..2
\* latencies they report, in ms
Latencies == {1, 2}
\* bounds of the exploration: models registered, record_request calls made
MaxRegistered == 1
MaxRecorded   == 2

\* f64::to_bits / f64::from_bits on the latencies explored (finite, not
\* negative): one bit pattern per value, 0.0 has the pattern 0
to_bits(v)   == 2 * v
from_bits(b) == b \div 2

IdleRec == [pc |-> "idle", handle |-> 0, latency |-> 0, old_bits |-> 0]

\* ModelRegistry::new
RegInit ==
    /\ registry = <<>>
    /\ next_handle = 1
    /\ rec = [t \in RecTasks |-> IdleRec]
    /\ recorded = <<>>

\* record_request calls made so far, over the handles 1..h
RECURSIVE CallsMade(_)
CallsMade(h) == IF h = 0 THEN 0 ELSE recorded[h].calls + CallsMade(h - 1)

\* models.write(): no record_request holds its read guard
NoReadGuard == \A t \in RecTasks : rec[t].pc = "idle"

\* the state register_with_format gives a new model
registered_state == "Ready"

\* register_with_format
Register ==
    /\ next_handle <= MaxRegistered
    /\ NoReadGuard
    /\ registry' = [h \in DOMAIN registry \cup {next_handle} |->
                      IF h = next_handle
                      THEN [state |-> registered_state, request_count |-> 0,
                            total_latency_ms |-> 0,
                            first |-> registered_state, prev |-> registered_state]
                      ELSE registry[h]]
    /\ recorded' = [h \in DOMAIN recorded \cup {next_handle} |->
                      IF h = next_handle
                      THEN [calls |-> 0, latency |-> 0, retried |-> FALSE]
                      ELSE recorded[h]]
    /\ next_handle' = next_handle + 1
    /\ UNCHANGED rec
    /\ UNCHANGED <<queueVars, authVars, nonceVars, kvVars, poolVars, tpVars, ipcVars, sanVars, streamVars, sdVars, auditVars, kdVars, rlVars, cnVars, piiVars>>

\* unregister
Unregister(h) ==
    /\ h \in DOMAIN registry
    /\ NoReadGuard
    /\ registry' = [i \in DOMAIN registry \ {h} |-> registry[i]]
    /\ UNCHANGED <<next_handle, rec, recorded>>
    /\ UNCHANGED <<queueVars, authVars, nonceVars, kvVars, poolVars, tpVars, ipcVars, sanVars, streamVars, sdVars, auditVars, kdVars, rlVars, cnVars, piiVars>>

\* set_state(handle, state); prev keeps the state it replaces
SetState(h, state) ==
    /\ h \in 1..(next_handle - 1)
    /\ NoReadGuard
    /\ registry' = IF h \in DOMAIN registry
                   THEN [registry EXCEPT ![h].prev = registry[h].state,
                                         ![h].state = state]
                   ELSE registry
    /\ UNCHANGED <<next_handle, rec, recorded>>
    /\ UNCHANGED <<queueVars, authVars, nonceVars, kvVars, poolVars, tpVars, ipcVars, sanVars, streamVars, sdVars, auditVars, kdVars, rlVars, cnVars, piiVars>>

\* record_request: models.read().await.get(&handle)
RecordStart(t, h, latency) ==
    /\ rec[t].pc = "idle"
    /\ h \in 1..(next_handle - 1)
    /\ CallsMade(next_handle - 1) < MaxRecorded
    /\ IF h \in DOMAIN registry
       THEN /\ rec' = [rec EXCEPT ![t] = [pc |-> "fetch_add", handle |-> h,
                                          latency |-> latency, old_bits |-> 0]]
            /\ recorded' = [recorded EXCEPT ![h].calls = @ + 1,
                                            ![h].latency = @ + latency]
       ELSE UNCHANGED <<rec, recorded>>
    /\ UNCHANGED <<registry, next_handle>>
    /\ UNCHANGED <<queueVars, authVars, nonceVars, kvVars, poolVars, tpVars, ipcVars, sanVars, streamVars, sdVars, auditVars, kdVars, rlVars, cnVars, piiVars>>

\* request_count.fetch_add(1)
RecordFetchAdd(t) ==
    /\ rec[t].pc = "fetch_add"
    /\ registry' = [registry EXCEPT ![rec[t].handle].request_count = @ + 1]
    /\ rec' = [rec EXCEPT ![t].pc = "load"]
    /\ UNCHANGED <<next_handle, recorded>>
    /\ UNCHANGED <<queueVars, authVars, nonceVars, kvVars, poolVars, tpVars, ipcVars, sanVars, streamVars, sdVars, auditVars, kdVars, rlVars, cnVars, piiVars>>

\* total_latency_ms.load()
RecordLoad(t) ==
    /\ rec[t].pc = "load"
    /\ rec' = [rec EXCEPT ![t].pc = "compare_exchange",
                          ![t].old_bits = registry[rec[t].handle].total_latency_ms]
    /\ UNCHANGED <<registry, next_handle, recorded>>
    /\ UNCHANGED <<queueVars, authVars, nonceVars, kvVars, poolVars, tpVars, ipcVars, sanVars, streamVars, sdVars, auditVars, kdVars, rlVars, cnVars, piiVars>>

\* compare_exchange(old_bits, new_bits) succeeds when the cell still holds old_bits
compare_exchange_blind(current, old_bits) == TRUE
compare_exchange(current, old_bits) == current = old_bits

\* the compare_exchange of the loop: store and return, or go round again
RecordCas(t) ==
    /\ rec[t].pc = "compare_exchange"
    /\ LET h == rec[t].handle
           new_bits == to_bits(from_bits(rec[t].old_bits) + rec[t].latency)
       IN IF compare_exchange(registry[h].total_latency_ms, rec[t].old_bits)
          THEN /\ registry' = [registry EXCEPT ![h].total_latency_ms = new_bits]
               /\ rec' = [rec EXCEPT ![t] = IdleRec]
               /\ UNCHANGED recorded
          ELSE /\ rec' = [rec EXCEPT ![t].pc = "load"]
               /\ recorded' = [recorded EXCEPT ![h].retried = TRUE]
               /\ UNCHANGED registry
    /\ UNCHANGED next_handle
    /\ UNCHANGED <<queueVars, authVars, nonceVars, kvVars, poolVars, tpVars, ipcVars, sanVars, streamVars, sdVars, auditVars, kdVars, rlVars, cnVars, piiVars>>

RegNext ==
    \/ Register
    \/ \E h \in 1..MaxRegistered : Unregister(h)
    \/ \E h \in 1..MaxRegistered, state \in ModelStates : SetState(h, state)
    \/ \E t \in RecTasks, h \in 1..MaxRegistered, latency \in Latencies :
          RecordStart(t, h, latency)
    \/ \E t \in RecTasks : RecordFetchAdd(t)
    \/ \E t \in RecTasks : RecordLoad(t)
    \/ \E t \in RecTasks : RecordCas(t)


(***************************************************************************)
(*                             AUDIT LOG                                   *)
(***************************************************************************)

\* AuditSeverity: Info = 0, Warning = 1, Error = 2, Critical = 3
AuditSeverities == 0..3
\* bounds of the exploration: log calls made, largest max_events configured
MaxLogged    == 4
MaxEventsCap == 2
AuditConfigs == [min_severity : AuditSeverities, max_events : 0..MaxEventsCap]
\* AUDIT_LOGGER before init_audit_logger
NoLogger == [min_severity |-> None, max_events |-> None]

AuditInit ==
    /\ audit_config = NoLogger
    /\ audit_events = <<>>
    /\ audit_calls = 0
    /\ audit_logged = <<>>

\* init_audit_logger: AUDIT_LOGGER.get_or_init(AuditLogger::new(config))
init_audit_logger(config) ==
    /\ audit_config' = IF audit_config = NoLogger THEN config ELSE audit_config
    /\ UNCHANGED <<audit_events, audit_calls, audit_logged>>
    /\ UNCHANGED <<queueVars, authVars, nonceVars, kvVars, poolVars, tpVars, ipcVars, sanVars, streamVars, sdVars, regVars, kdVars, rlVars, cnVars, piiVars>>

\* events.drain(0..excess)
drain_front(events, excess) == SubSeq(events, excess + 1, Len(events))

\* events.len() > self.config.max_events
over_cap_never(len, max_events) == FALSE
over_cap(len, max_events) == len > max_events

\* AuditLogger::log(event); the event carries the number of the call as its id
AuditLog(severity) ==
    /\ audit_config # NoLogger
    /\ audit_calls < MaxLogged
    /\ LET event  == [id |-> audit_calls + 1, severity |-> severity]
           pushed == Append(audit_events, event)
       IN /\ audit_logged' = Append(audit_logged, event)
          /\ audit_events' =
               IF severity < audit_config.min_severity
               THEN audit_events
               ELSE IF over_cap(Len(pushed), audit_config.max_events)
                    THEN drain_front(pushed, Len(pushed) - audit_config.max_events)
                    ELSE pushed
    /\ audit_calls' = audit_calls + 1
    /\ UNCHANGED audit_config
    /\ UNCHANGED <<queueVars, authVars, nonceVars, kvVars, poolVars, tpVars, ipcVars, sanVars, streamVars, sdVars, regVars, kdVars, rlVars, cnVars, piiVars>>

\* AuditLogger::clear; audit_logged restarts with the log
AuditClear ==
    /\ audit_config # NoLogger
    /\ audit_events' = <<>>
    /\ audit_logged' = <<>>
    /\ UNCHANGED <<audit_config, audit_calls>>
    /\ UNCHANGED <<queueVars, authVars, nonceVars, kvVars, poolVars, tpVars, ipcVars, sanVars, streamVars, sdVars, regVars, kdVars, rlVars, cnVars, piiVars>>

AuditNext ==
    \/ \E config \in AuditConfigs : init_audit_logger(config)
    \/ \E severity \in AuditSeverities : AuditLog(severity)
    \/ AuditClear


(***************************************************************************)
(*                      KV CACHE: ROWS WRITTEN AND READ                    *)
(***************************************************************************)

\* KvCacheConfig.max_seq_len of the modelled instance: the rows a Q8KvStore
\* holds before append refuses
Q8Capacity == 2
\* bounds of the exploration: sequences allocated, rows appended to each
MaxRowSeqs == 2
MaxRows    == 3

\* the K and V rows append_kv was given by sequence seq at logical position pos
Row(seq, pos) == [seq |-> seq, pos |-> pos]
NoRow == [seq |-> None, pos |-> None]
RowPositions == 0..(MaxRows - 1)

\* before KvCacheManager::new
KdInit ==
    /\ kd_quant = "unset"
    /\ kd_entries = <<>>
    /\ kd_pages = [p \in RowPositions |-> NoRow]
    /\ lastRead = [op |-> NoOp]

\* KvCacheManager::new(config) with config.enable_quantization = q and
\* max_pages large enough for every row explored
KdNew(q) ==
    /\ kd_quant = "unset"
    /\ kd_quant' = IF q THEN "on" ELSE "off"
    /\ UNCHANGED <<kd_entries, kd_pages, lastRead>>
    /\ UNCHANGED <<queueVars, authVars, nonceVars, kvVars, poolVars, tpVars, ipcVars, sanVars, streamVars, sdVars, regVars, auditVars, rlVars, cnVars, piiVars>>

\* allocate_sequence: quant_store is Some(empty store) when quantization is on
KdAllocateSequence ==
    /\ kd_quant # "unset"
    /\ Len(kd_entries) < MaxRowSeqs
    /\ kd_entries' = Append(kd_entries, [seq_len |-> 0, pages |-> 0, quant_store |-> <<>>])
    /\ UNCHANGED <<kd_quant, kd_pages, lastRead>>
    /\ UNCHANGED <<queueVars, authVars, nonceVars, kvVars, poolVars, tpVars, ipcVars, sanVars, streamVars, sdVars, regVars, auditVars, rlVars, cnVars, piiVars>>

\* the positions PageTable::get / get_mut resolve to the page of seq_pos
BlockOf(seq_pos) == {p \in RowPositions : p \div PAGE_TOKENS = seq_pos \div PAGE_TOKENS}

\* PageTable::allocate(seq_pos): the page get_mut(seq_pos) yields afterwards
\* is the one already there for that position or a fresh one
PageTableAllocate(pages, seq_pos) ==
    {pages, [p \in RowPositions |-> IF p \in BlockOf(seq_pos) THEN NoRow ELSE pages[p]]}

\* write_to_page(seq_pos, slot, keys, values): the page is found by position
write_to_page(pages, seq_pos, row) == [pages EXCEPT ![seq_pos] = row]

\* write_to_quant_store: append, or reset and append when the store is full
write_to_quant_store(qs, row) ==
    IF Len(qs) < Q8Capacity THEN Append(qs, row) ELSE <<row>>

\* append_kv(seq, keys, values), the page table never full
KdAppendKv(seq) ==
    /\ seq \in 1..Len(kd_entries)
    /\ LET entry   == kd_entries[seq]
           seq_pos == entry.seq_len
           row     == Row(seq, seq_pos)
           needs   == seq_pos % PAGE_TOKENS = 0 \/ entry.pages = 0
       IN /\ seq_pos < MaxRows
          /\ \E table \in (IF needs THEN PageTableAllocate(kd_pages, seq_pos)
                                   ELSE {kd_pages}) :
                kd_pages' = write_to_page(table, seq_pos, row)
          /\ kd_entries' = [kd_entries EXCEPT
                 ![seq].seq_len = @ + 1,
                 ![seq].pages = IF needs THEN @ + 1 ELSE @,
                 ![seq].quant_store = IF kd_quant = "on"
                                      THEN write_to_quant_store(@, row) ELSE @]
    /\ UNCHANGED <<kd_quant, lastRead>>
    /\ UNCHANGED <<queueVars, authVars, nonceVars, kvVars, poolVars, tpVars, ipcVars, sanVars, streamVars, sdVars, regVars, auditVars, rlVars, cnVars, piiVars>>

\* read_from_page_table(pos)
read_from_page_table(pages, pos) ==
    IF pages[pos] = NoRow THEN [result |-> "PageNotFound", row |-> NoRow]
    ELSE [result |-> "Ok", row |-> pages[pos]]

\* read_kv(seq, pos); lastRead keeps the seq_len the call saw (None: no such sequence)
read_kv(entry, pages, pos) ==
    IF pos >= entry.seq_len THEN [result |-> "PositionOutOfBounds", row |-> NoRow]
    ELSE IF kd_quant = "on" /\ pos < Len(entry.quant_store)
    THEN [result |-> "Ok", row |-> entry.quant_store[pos + 1]]
    ELSE read_from_page_table(pages, pos)

KdReadKv(seq, pos) ==
    /\ kd_quant # "unset"
    /\ lastRead' =
         IF seq \notin 1..Len(kd_entries)
         THEN [op |-> "read_kv", seq |-> seq, pos |-> pos, seq_len |-> None,
               result |-> "SequenceNotFound", row |-> NoRow]
         ELSE LET r == read_kv(kd_entries[seq], kd_pages, pos)
              IN [op |-> "read_kv", seq |-> seq, pos |-> pos,
                  seq_len |-> kd_entries[seq].seq_len,
                  result |-> r.result, row |-> r.row]
    /\ UNCHANGED <<kd_quant, kd_entries, kd_pages>>
    /\ UNCHANGED <<queueVars, authVars, nonceVars, kvVars, poolVars, tpVars, ipcVars, sanVars, streamVars, sdVars, regVars, auditVars, rlVars, cnVars, piiVars>>

KdNext ==
    \/ \E q \in BOOLEAN : KdNew(q)
    \/ KdAllocateSequence
    \/ \E seq \in 1..MaxRowSeqs : KdAppendKv(seq)
    \/ \E seq \in 1..MaxRowSeqs, pos \in RowPositions : KdReadKv(seq, pos)


(***************************************************************************)
(*                 RATE LIMITER: CONCURRENT FAILED HANDSHAKES              *)
(***************************************************************************)

\* threads calling authenticate with a wrong token at the same instant anow
AuthCallers == 1..2
\* bound of the exploration: authenticate calls started
MaxFailedCalls == 6

IdleCaller == [pc |-> "idle"]

RlInit ==
    /\ caller = [t \in AuthCallers |-> IdleCaller]
    /\ ws_lock = None
    /\ fail_calls = 0
    /\ fail_returned = 0

\* authenticate(wrong token): is_rate_limited, then the digests differ
FailStart(t) ==
    /\ caller[t] = IdleCaller
    /\ fail_calls < MaxFailedCalls
    /\ fail_calls' = fail_calls + 1
    /\ caller' = IF is_rate_limited(blocked_until, anow)
                 THEN caller
                 ELSE [caller EXCEPT ![t] = [pc |-> "record_failure"]]
    /\ UNCHANGED <<ws_lock, fail_returned, authVars>>
    /\ UNCHANGED <<queueVars, nonceVars, kvVars, poolVars, tpVars, ipcVars, sanVars, streamVars, sdVars, regVars, auditVars, kdVars, cnVars, piiVars>>

\* record_failure: now, window_start.lock() and the should_reset test; the
\* guard is kept for the store, or dropped at the end of the if-let
FailLockWindow(t) ==
    /\ caller[t].pc = "record_failure"
    /\ ws_lock = None
    /\ IF window_start = None \/ anow - window_start > ATTEMPT_WINDOW
       THEN /\ caller' = [caller EXCEPT ![t] = [pc |-> "store"]]
            /\ ws_lock' = t
       ELSE /\ caller' = [caller EXCEPT ![t] = [pc |-> "fetch_add"]]
            /\ UNCHANGED ws_lock
    /\ UNCHANGED <<fail_calls, fail_returned, authVars>>
    /\ UNCHANGED <<queueVars, nonceVars, kvVars, poolVars, tpVars, ipcVars, sanVars, streamVars, sdVars, regVars, auditVars, kdVars, cnVars, piiVars>>

\* record_failure: failed_attempts.store(1); drop(window_start)
FailStore(t) ==
    /\ caller[t].pc = "store"
    /\ failed_attempts' = 1
    /\ ws_lock' = None
    /\ caller' = [caller EXCEPT ![t] = [pc |-> "relock"]]
    /\ UNCHANGED <<fail_calls, fail_returned>>
    /\ UNCHANGED <<window_start, blocked_until, sessions, next_session, anow,
                   failLog, blockSetAt, lastAuth>>
    /\ UNCHANGED <<queueVars, nonceVars, kvVars, poolVars, tpVars, ipcVars, sanVars, streamVars, sdVars, regVars, auditVars, kdVars, cnVars, piiVars>>

\* record_failure: window_start.lock() again, *ws = Some(now); return
FailSetWindow(t) ==
    /\ caller[t].pc = "relock"
    /\ ws_lock = None
    /\ window_start' = anow
    /\ caller' = [caller EXCEPT ![t] = IdleCaller]
    /\ fail_returned' = fail_returned + 1
    /\ UNCHANGED <<ws_lock, fail_calls>>
    /\ UNCHANGED <<failed_attempts, blocked_until, sessions, next_session, anow,
                   failLog, blockSetAt, lastAuth>>
    /\ UNCHANGED <<queueVars, nonceVars, kvVars, poolVars, tpVars, ipcVars, sanVars, streamVars, sdVars, regVars, auditVars, kdVars, cnVars, piiVars>>

\* record_failure: failed_attempts.fetch_add(1) + 1 and the test against
\* MAX_FAILED_ATTEMPTS
FailFetchAdd(t) ==
    /\ caller[t].pc = "fetch_add"
    /\ failed_attempts' = failed_attempts + 1
    /\ IF failed_attempts + 1 >= MAX_FAILED_ATTEMPTS
       THEN /\ caller' = [caller EXCEPT ![t] = [pc |-> "block"]]
            /\ UNCHANGED fail_returned
       ELSE /\ caller' = [caller EXCEPT ![t] = IdleCaller]
            /\ fail_returned' = fail_returned + 1
    /\ UNCHANGED <<ws_lock, fail_calls>>
    /\ UNCHANGED <<window_start, blocked_until, sessions, next_session, anow,
                   failLog, blockSetAt, lastAuth>>
    /\ UNCHANGED <<queueVars, nonceVars, kvVars, poolVars, tpVars, ipcVars, sanVars, streamVars, sdVars, regVars, auditVars, kdVars, cnVars, piiVars>>

\* record_failure: *blocked_until = Some(now + RATE_LIMIT_DURATION); return
FailBlock(t) ==
    /\ caller[t].pc = "block"
    /\ blocked_until' = anow + RATE_LIMIT_DURATION
    /\ caller' = [caller EXCEPT ![t] = IdleCaller]
    /\ fail_returned' = fail_returned + 1
    /\ UNCHANGED <<ws_lock, fail_calls>>
    /\ UNCHANGED <<failed_attempts, window_start, sessions, next_session, anow,
                   failLog, blockSetAt, lastAuth>>
    /\ UNCHANGED <<queueVars, nonceVars, kvVars, poolVars, tpVars, ipcVars, sanVars, streamVars, sdVars, regVars, auditVars, kdVars, cnVars, piiVars>>

RlNext ==
    \/ \E t \in AuthCallers : FailStart(t)
    \/ \E t \in AuthCallers : FailLockWindow(t)
    \/ \E t \in AuthCallers : FailStore(t)
    \/ \E t \in AuthCallers : FailSetWindow(t)
    \/ \E t \in AuthCallers : FailFetchAdd(t)
    \/ \E t \in AuthCallers : FailBlock(t)


(***************************************************************************)
(*                    SESSIONS: CONNECTION COUNTING                        *)
(***************************************************************************)

\* session tokens of the exploration
ConnTokens == 1..2
\* bound of the exploration: track and release calls made on one session
MaxConnCalls == 3

CnInit ==
    /\ connection_count = <<>>
    /\ conn_tracked = <<>>
    /\ conn_released = <<>>
    /\ lastConn = [op |-> NoOp]

\* AtomicUsize::fetch_add / fetch_sub: atomic arithmetic wraps around,
\* with U64Top standing for the modulus of usize
wrapping_add(c, k) == (c + k) % U64Top
wrapping_sub(c, k) == (c - k) % U64Top

\* authenticate with the right token: a new session is inserted with
\* connection_count 0
ConnSessionInsert(tok) ==
    /\ tok \notin DOMAIN connection_count
    /\ connection_count' = tok :> 0 @@ connection_count
    /\ conn_tracked' = tok :> 0 @@ conn_tracked
    /\ conn_released' = tok :> 0 @@ conn_released
    /\ lastConn' = [op |-> "authenticate", tok |-> tok]
    /\ UNCHANGED <<queueVars, authVars, nonceVars, kvVars, poolVars, tpVars, ipcVars, sanVars, streamVars, sdVars, regVars, auditVars, kdVars, rlVars, piiVars>>

\* cleanup: an expired session is removed with its counter
ConnCleanup(tok) ==
    /\ tok \in DOMAIN connection_count
    /\ connection_count' = RemoveKey(connection_count, tok)
    /\ conn_tracked' = RemoveKey(conn_tracked, tok)
    /\ conn_released' = RemoveKey(conn_released, tok)
    /\ lastConn' = [op |-> "cleanup", tok |-> tok]
    /\ UNCHANGED <<queueVars, authVars, nonceVars, kvVars, poolVars, tpVars, ipcVars, sanVars, streamVars, sdVars, regVars, auditVars, kdVars, rlVars, piiVars>>

ConnCallsLeft(tok) ==
    tok \in DOMAIN connection_count
    => conn_tracked[tok] + conn_released[tok] < MaxConnCalls

\* track_connection: SessionNotFound, or fetch_add(1) + 1
track_connection(tok) ==
    /\ ConnCallsLeft(tok)
    /\ IF tok \notin DOMAIN connection_count
       THEN /\ lastConn' = [op |-> "track_connection", tok |-> tok,
                            result |-> "SessionNotFound"]
            /\ UNCHANGED <<connection_count, conn_tracked, conn_released>>
       ELSE /\ connection_count' = [connection_count EXCEPT
                                       ![tok] = wrapping_add(@, 1)]
            /\ conn_tracked' = [conn_tracked EXCEPT ![tok] = @ + 1]
            /\ lastConn' = [op |-> "track_connection", tok |-> tok,
                            result |-> wrapping_add(connection_count[tok], 1)]
            /\ UNCHANGED conn_released
    /\ UNCHANGED <<queueVars, authVars, nonceVars, kvVars, poolVars, tpVars, ipcVars, sanVars, streamVars, sdVars, regVars, auditVars, kdVars, rlVars, piiVars>>

\* release_connection: fetch_sub(1) when the session exists, nothing otherwise
release_connection(tok) ==
    /\ ConnCallsLeft(tok)
    /\ IF tok \notin DOMAIN connection_count
       THEN UNCHANGED <<connection_count, conn_tracked, conn_released>>
       ELSE /\ connection_count' = [connection_count EXCEPT
                                       ![tok] = wrapping_sub(@, 1)]
            /\ conn_released' = [conn_released EXCEPT ![tok] = @ + 1]
            /\ UNCHANGED conn_tracked
    /\ lastConn' = [op |-> "release_connection", tok |-> tok]
    /\ UNCHANGED <<queueVars, authVars, nonceVars, kvVars, poolVars, tpVars, ipcVars, sanVars, streamVars, sdVars, regVars, auditVars, kdVars, rlVars, piiVars>>

CnNext ==
    \/ \E tok \in ConnTokens : ConnSessionInsert(tok)
    \/ \E tok \in ConnTokens : ConnCleanup(tok)
    \/ \E tok \in ConnTokens : track_connection(tok)
    \/ \E tok \in ConnTokens : release_connection(tok)


(***************************************************************************)
(*                    PII DETECTOR: OVERLAP RESOLUTION                     *)
(***************************************************************************)

\* bounds of the exploration: byte offsets of the text, matches found in it
MaxMatchPos == 4
MaxMatches  == 3

\* values of calculate_confidence, in hundredths: a phone number without and
\* with its prefix, a credit card
Confidences == {60, 85, 95}

\* PIIMatch: the byte range start..end and the confidence
PIIMatch == [start : 0..MaxMatchPos, end : 1..MaxMatchPos, confidence : Confidences]
Matches  == {m \in PIIMatch : m.start < m.end}

\* what detect hands to remove_overlaps: the matches of all the patterns
\* after matches.sort_by_key(|m| m.start)
SortedByStart(ms) == \A i \in 1..Len(ms) - 1 : ms[i].start <= ms[i + 1].start

PiiInit ==
    /\ pii_matches = <<>>
    /\ pii_result = <<>>

\* the loop of remove_overlaps over the matches after the first one
RECURSIVE overlap_loop(_, _, _)
overlap_loop(matches, current, result) ==
    IF matches = <<>> THEN Append(result, current)
    ELSE LET m == Head(matches)
         IN IF m.start < current.end
            THEN overlap_loop(Tail(matches),
                              IF m.confidence > current.confidence THEN m ELSE current,
                              result)
            ELSE overlap_loop(Tail(matches), m, Append(result, current))

remove_overlaps(matches) ==
    IF Len(matches) <= 1 THEN matches
    ELSE overlap_loop(Tail(matches), Head(matches), <<>>)

\* detect finds one more match in the text: the sorted list grows at its end
PiiFind(m) ==
    /\ Len(pii_matches) < MaxMatches
    /\ SortedByStart(Append(pii_matches, m))
    /\ pii_matches' = Append(pii_matches, m)
    /\ pii_result' = <<>>
    /\ UNCHANGED <<queueVars, authVars, nonceVars, kvVars, poolVars, tpVars, ipcVars, sanVars, streamVars, sdVars, regVars, auditVars, kdVars, rlVars, cnVars>>

\* detect returns remove_overlaps(matches)
PiiResolve ==
    /\ pii_matches # <<>>
    /\ pii_result = <<>>
    /\ pii_result' = remove_overlaps(pii_matches)
    /\ UNCHANGED pii_matches
    /\ UNCHANGED <<queueVars, authVars, nonceVars, kvVars, poolVars, tpVars, ipcVars, sanVars, streamVars, sdVars, regVars, auditVars, kdVars, rlVars, cnVars>>

\* the next call of detect
PiiRestart ==
    /\ pii_result # <<>>
    /\ pii_matches' = <<>>
    /\ pii_result' = <<>>
    /\ UNCHANGED <<queueVars, authVars, nonceVars, kvVars, poolVars, tpVars, ipcVars, sanVars, streamVars, sdVars, regVars, auditVars, kdVars, rlVars, cnVars>>

PiiNext ==
    \/ \E m \in Matches : PiiFind(m)
    \/ PiiResolve
    \/ PiiRestart


(***************************************************************************)
(*                          SPECIFICATIONS                                 *)
(***************************************************************************)

Init == QueueInit /\ AuthInit /\ NonceInit /\ KvInit /\ PoolInit /\ TpInit /\ IpcInit /\ SanInit
        /\ StreamInit
        /\ SdInit
        /\ RegInit
        /\ AuditInit
        /\ KdInit
        /\ RlInit
        /\ CnInit
        /\ PiiInit

SpecQueue == Init /\ [][QueueNext]_vars
SpecAuth  == Init /\ [][AuthNext]_vars
SpecNonce == Init /\ [][NonceNext]_vars
SpecKv    == Init /\ [][KvNext]_vars
SpecPool  == Init /\ [][PoolNext]_vars
SpecTp    == Init /\ [][TpNext]_vars
SpecTpLoad == Init /\ [][TpLoadNext]_vars
SpecSession == Init /\ [][SessionNext]_vars
SpecIpc   == Init /\ [][IpcNext]_vars
SpecSan   == Init /\ [][SanNext]_vars
SpecStream == Init /\ [][StreamNext]_vars
SpecShutdown == Init /\ [][SdNext]_vars
SpecRegistry == Init /\ [][RegNext]_vars
SpecAudit == Init /\ [][AuditNext]_vars
SpecKvRows == Init /\ [][KdNext]_vars
SpecAuthRace == Init /\ [][RlNext]_vars
SpecConn  == Init /\ [][CnNext]_vars
SpecPii   == Init /\ [][PiiNext]_vars
\* the worker task is scheduled: a step it can take is eventually taken
SpecShutdownLive == Init /\ [][SdNext]_vars /\ WF_vars(WorkerNext)


(***************************************************************************)
(*                             PROPERTIES                                  *)
(***************************************************************************)

\* entries of the queue a dequeue call found: live = neither cancelled nor expired
DeqBefore == {qlast.before[i] : i \in 1..Len(qlast.before)}
DeqLive   == {r \in DeqBefore :
                ~r.cancelled /\ ~(r.deadline # None /\ qlast.time > r.deadline)}

\* C1: a request whose cancel(id) succeeded while it was queued is never
\* returned by a later dequeue nor handed to the Model; the dequeue that meets
\* it returns the next live request instead.
C1_CancelledNeverInvoked ==
    /\ cancelledOk \cap invoked = {}
    /\ qlast.op = "dequeue" =>
         /\ qlast.ret.id \notin cancelledOk
         /\ DeqLive # {} => qlast.ret.id \in {r.id : r \in DeqLive}

C1_Witness ==
    /\ qlast.op = "dequeue"
    /\ qlast.discarded \cap cancelledOk # {}
    /\ qlast.ret.id # 0
    /\ qlast.ret.id \in invoked

\* C2: enqueue succeeds iff, at the call, fewer than max_pending requests are
\* pending and ceil(len_bytes / 4) <= max_context_tokens; otherwise the result
\* is QueueFull or ContextExceeded and nothing is queued.
C2_AdmissionIff ==
    qlast.op = "enqueue" =>
        /\ qlast.result = "Ok" <=>
              (qlast.size < MaxPending /\ CeilDiv(qlast.len, 4) <= MaxContextTokens)
        /\ qlast.result \in {"Ok", "QueueFull", "ContextExceeded"}
        /\ qlast.result = "Ok" => Len(queue) = qlast.size + 1
        /\ qlast.result # "Ok" => Len(queue) = qlast.size

C2_Witness ==
    /\ qlast.op = "enqueue"
    /\ qlast.result = "Ok"
    /\ qlast.size = MaxPending - 1
    /\ CeilDiv(qlast.len, 4) = MaxContextTokens

\* C3: dequeue returns, among the pending requests that are neither cancelled
\* nor expired, one of the highest priority and, among those, the one with the
\* smallest id.
C3_PriorityThenFifo ==
    qlast.op = "dequeue" =>
        /\ DeqLive # {} => qlast.ret.id # 0
        /\ qlast.ret.id # 0 =>
              /\ qlast.ret \in DeqLive
              /\ \A r \in DeqLive :
                    \/ qlast.ret.priority > r.priority
                    \/ qlast.ret.priority = r.priority /\ qlast.ret.id <= r.id

\* scenario A: a Normal request enqueued before a High one; the High one leaves first
C3_Witness ==
    /\ qlast.op = "dequeue"
    /\ qlast.ret.id = 2
    /\ qlast.ret.priority = High
    /\ \E r \in DeqLive : r.id = 1 /\ r.priority = Normal

\* C4: a request whose deadline has passed is never returned by dequeue; it is
\* discarded, its sink resolves with DeadlineExceeded and the next live request
\* is returned.
C4_ExpiredNeverDelivered ==
    qlast.op = "dequeue" =>
        /\ qlast.ret.id # 0 =>
              ~(qlast.ret.deadline # None /\ qlast.time > qlast.ret.deadline)
        /\ \A r \in DeqBefore :
              (r.id \in qlast.discarded /\ ~r.cancelled) =>
                  /\ sinks[r.id] = "DeadlineExceeded"
                  /\ r.id \notin invoked
        /\ DeqLive # {} => qlast.ret.id \in {r.id : r \in DeqLive}

C4_Witness ==
    /\ qlast.op = "dequeue"
    /\ qlast.ret.id # 0
    /\ \E r \in DeqBefore :
          /\ r.id \in qlast.discarded
          /\ ~r.cancelled
          /\ r.deadline # None /\ qlast.time > r.deadline
          /\ sinks[r.id] = "DeadlineExceeded"

C6_BlockEnds ==
    (/\ lastAuth.op = "authenticate"
     /\ lastAuth.token = "correct"
     /\ lastAuth.blockSet # None
     /\ lastAuth.time >= lastAuth.blockSet + 30)
    => /\ lastAuth.result = "Ok"
       /\ lastAuth.session \notin lastAuth.before
       /\ lastAuth.session \in DOMAIN sessions

C6_Witness ==
    /\ lastAuth.op = "authenticate"
    /\ lastAuth.token = "correct"
    /\ lastAuth.blockSet # None
    /\ lastAuth.time = lastAuth.blockSet + 30
    /\ lastAuth.result = "Ok"

\* C7 as stated: once check_and_register_nonce(n) has returned Ok, every later
\* call with n returns NonceReuseDetected, whatever was registered in between.
C7_Original ==
    (lastNonce.op = "check_and_register_nonce" /\ lastNonce.nonce \in lastNonce.okBefore)
    => lastNonce.result = "NonceReuseDetected"

\* C7 amended: once check_and_register_nonce(n) has returned Ok, every later
\* call with n returns NonceReuseDetected as long as no half-trim of the
\* tracker has happened since n was accepted.
C7_ReuseDetectedUntilTrim ==
    (lastNonce.op = "check_and_register_nonce" /\ lastNonce.nonce \in lastNonce.okWindow)
    => lastNonce.result = "NonceReuseDetected"

C7_Witness ==
    /\ lastNonce.op = "check_and_register_nonce"
    /\ lastNonce.nonce \in lastNonce.okWindow
    /\ Cardinality(lastNonce.okWindow) >= 2
    /\ lastNonce.okBefore # lastNonce.okWindow
    /\ lastNonce.result = "NonceReuseDetected"

\* C8: when append_kv needs a fresh page and the page table has none, the call
\* completes: the LRU sequence is evicted end-to-end (it disappears, its pages
\* are free again), the allocation is retried, and MemoryExhausted is returned
\* only if the table is still full.
C8_EvictionCompletes ==
    (lastKv.op = "append_kv" /\ lastKv.tableFull)
    => /\ lastKv.result \in {"Ok", "MemoryExhausted"}
       /\ seqLock # "deadlocked"
       /\ lastKv.victim # None => lastKv.victim \notin DOMAIN sequences
       /\ lastKv.result = "MemoryExhausted" =>
             (free_list = <<>> /\ pages_created >= MaxPages)

\* page ids held by the live sequences, as (sequence, index) -> page id
Owned == {<<s, i>> : s \in DOMAIN sequences, i \in 1..MaxPages + 1}
OwnedSlots == {o \in Owned : o[2] <= Len(sequences[o[1]].page_ids)}
PageAt(o) == sequences[o[1]].page_ids[o[2]]

\* C9: a page belongs to at most one sequence: no page id occurs twice in the
\* page lists of the live sequences, nor in a page list and on the free list.
C9_PageOwnedOnce ==
    /\ \A a \in OwnedSlots, b \in OwnedSlots : a # b => PageAt(a) # PageAt(b)
    /\ \A a \in OwnedSlots : PageAt(a) \notin SeqToSet(free_list)
    /\ \A i \in 1..Len(free_list), j \in 1..Len(free_list) :
          i # j => free_list[i] # free_list[j]

\* two live sequences own a page each, one of them a page that sliding-window
\* eviction freed and the table handed out again
C9_Witness ==
    /\ lastKv.op = "append_kv"
    /\ lastKv.result = "Ok"
    /\ \E s \in DOMAIN sequences, t \in DOMAIN sequences :
          /\ s # t
          /\ sequences[s].page_ids # <<>>
          /\ sequences[t].page_ids # <<>>
          /\ sequences[s].evicted
    /\ pages_created = MaxPages

\* C10 as stated: page_ids.len() == ceil(seq_len / P) for every live sequence.
C10_Original ==
    \A s \in DOMAIN sequences :
        Len(sequences[s].page_ids) = CeilDiv(sequences[s].seq_len, PAGE_TOKENS)

\* C10 amended: page_ids.len() <= ceil(seq_len / P) for every live sequence,
\* with equality as long as evict_beyond_window has evicted no page of it.
C10_PagesBoundedBySeqLen ==
    \A s \in DOMAIN sequences :
        /\ Len(sequences[s].page_ids) <= CeilDiv(sequences[s].seq_len, PAGE_TOKENS)
        /\ ~sequences[s].evicted =>
              Len(sequences[s].page_ids) = CeilDiv(sequences[s].seq_len, PAGE_TOKENS)

C10_Witness ==
    /\ lastKv.op = "append_kv"
    /\ lastKv.result = "Ok"
    /\ \E s \in DOMAIN sequences :
          /\ s = lastKv.seq
          /\ sequences[s].evicted
          /\ sequences[s].page_ids # <<>>
          /\ Len(sequences[s].page_ids) < CeilDiv(sequences[s].seq_len, PAGE_TOKENS)

\* C11 as stated: after evict_beyond_window(seq, pos), for any pos, the sequence
\* retains at most ceil((W+O)/P) + 1 pages.
C11_Original ==
    (lastKv.op = "evict_beyond_window" /\ lastKv.seq \in DOMAIN sequences)
    => Len(sequences[lastKv.seq].page_ids)
          <= CeilDiv(WindowSize + OverlapTokens, PAGE_TOKENS) + 1

\* C11 amended: after evict_beyond_window(seq, pos) with pos at or beyond the
\* sequence's length, the sequence retains at most ceil((W+O)/P) + 1 pages.
C11_WindowBoundAtCurrentPos ==
    (/\ lastKv.op = "evict_beyond_window"
     /\ lastKv.seq \in DOMAIN sequences
     /\ lastKv.pos >= sequences[lastKv.seq].seq_len)
    => Len(sequences[lastKv.seq].page_ids)
          <= CeilDiv(WindowSize + OverlapTokens, PAGE_TOKENS) + 1

\* a sequence that held more pages than the bound is cut down to the bound
C11_Witness ==
    /\ lastKv.op = "evict_beyond_window"
    /\ lastKv.seq \in DOMAIN sequences
    /\ lastKv.pos >= sequences[lastKv.seq].seq_len
    /\ sequences[lastKv.seq].evicted
    /\ sequences[lastKv.seq].page_ids # <<>>
    /\ CeilDiv(sequences[lastKv.seq].seq_len, PAGE_TOKENS)
          > CeilDiv(WindowSize + OverlapTokens, PAGE_TOKENS) + 1

\* C12: whenever the pool's active model is set, it names a model that is in
\* the pool, under any interleaving of preload, switch_to and remove.
C12_ActiveInPool ==
    active_model # None => active_model \in DOMAIN models

\* C13: after every preload that returns Ok, concurrent ones included, the pool
\* holds at most max_models models, their memory_bytes sum to at most
\* max_memory_bytes, and the insertion overwrote no model.
C13_PreloadRespectsCapacity ==
    (lastPool.op = "preload" /\ lastPool.result = "Ok")
    => /\ Cardinality(DOMAIN models) <= max_models
       /\ current_memory(models) <= max_memory_bytes
       /\ ~lastPool.overwrote

\* C14: the model evict_one removes has the lowest tier among the non-active
\* pooled models: none of a strictly lower tier stays in the pool.
C14_TierDominatesEviction ==
    lastPool.op = "evict_one" =>
        \A tr \in lastPool.otherTiers : tr >= lastPool.victimTier

\* C15: a worker thread exits only when shutdown is flagged and the deques are
\* empty, so that every accepted task runs before the workers terminate.
C15_ExitOnlyWhenDrained ==
    lastTp.op = "worker_exit" =>
        /\ shutdown
        /\ \A w \in TpWorkers : worker_queues[w] = <<>>
        /\ global_queue = <<>>

\* C16: every worker deque is ordered front to back by priority (higher first)
\* and, within equal priority, by ascending sequence number.
C16_DequesOrdered ==
    \A w \in TpWorkers :
        \A i \in 1..Len(worker_queues[w]), j \in 1..Len(worker_queues[w]) :
            i < j =>
                \/ worker_queues[w][i].priority > worker_queues[w][j].priority
                \/ /\ worker_queues[w][i].priority = worker_queues[w][j].priority
                   /\ worker_queues[w][i].sequence < worker_queues[w][j].sequence

\* a submission that drew its sequence number first but inserted second is
\* placed in front of the equal-priority task that overtook it
C16_Witness ==
    /\ lastTp.op = "submit"
    /\ lastTp.result = "Ok"
    /\ lastTp.pos < Len(worker_queues[lastTp.worker])
    /\ worker_queues[lastTp.worker][lastTp.pos].priority
          = worker_queues[lastTp.worker][lastTp.pos + 1].priority

\* C17: a task accepted by submit after a worker panicked can still be run:
\* some worker thread that takes from its deque (its owner, or a peer that
\* steals) is alive while the pool is not shut down.
C17_AcceptedTaskHasWorker ==
    (/\ lastTp.op = "submit"
     /\ lastTp.result = "Ok"
     /\ ~shutdown
     /\ \E w \in TpWorkers : wstate[w] = "dead")
    => \/ wstate[lastTp.worker] = "alive"
       \/ enable_work_stealing /\ \E w \in TpWorkers : wstate[w] = "alive"

\* C18: validate of a session older than the timeout removes it and returns
\* SessionExpired; a validate of an id that is not (or no longer) a session
\* returns SessionNotFound; cleanup removes exactly the sessions older than the
\* timeout.
C18_ExpiredSessionsRemoved ==
    /\ lastAuth.op = "validate" =>
          /\ (lastAuth.age # None /\ lastAuth.age > session_timeout)
                => /\ lastAuth.result = "SessionExpired"
                   /\ lastAuth.id \notin DOMAIN sessions
          /\ (lastAuth.age # None /\ lastAuth.age <= session_timeout)
                => /\ lastAuth.result \in {"Ok", "SessionRateLimited"}
                   /\ lastAuth.id \in DOMAIN sessions
          /\ lastAuth.age = None => lastAuth.result = "SessionNotFound"
    /\ lastAuth.op = "cleanup" =>
          DOMAIN sessions = {i \in DOMAIN lastAuth.before :
                               lastAuth.time - lastAuth.before[i] <= session_timeout}

\* an expired session is dropped by validate while a younger one stays
C18_Witness ==
    /\ lastAuth.op = "validate"
    /\ lastAuth.result = "SessionExpired"
    /\ lastAuth.id \notin DOMAIN sessions
    /\ DOMAIN sessions # {}

\* C19: per session, no more than MAX_REQUESTS_PER_MINUTE validate calls
\* succeed within any 60-second span: MAX_REQUESTS_PER_MINUTE + 1 successes
\* are never less than 60 s apart from first to last.
C19_SlidingWindowLimit ==
    \A i \in DOMAIN sessions :
        Len(sessions[i].ok_times) > MAX_REQUESTS_PER_MINUTE =>
            sessions[i].ok_times[Len(sessions[i].ok_times)] - sessions[i].ok_times[1] >= 60

\* C20: a frame other than Handshake is served on a connection only after a
\* Handshake has succeeded on that connection, and only if validate of that
\* connection's session returned Ok for this frame.
C20_HandshakeFirst ==
    (lastIpc.op = "frame" /\ lastIpc.kind # "Handshake" /\ lastIpc.reply = "Served")
    => /\ conns[lastIpc.conn].handshaken
       /\ conns[lastIpc.conn].session # None
       /\ lastAuth.op = "validate"
       /\ lastAuth.result = "Ok"
       /\ lastAuth.id = conns[lastIpc.conn].session

\* a request is served on a connection that shook hands while another open
\* connection has not
C20_Witness ==
    /\ lastIpc.op = "frame"
    /\ lastIpc.kind = "Request"
    /\ lastIpc.reply = "Served"
    /\ \E d \in Conns : conns[d].open /\ ~conns[d].handshaken

\* C21: a frame whose declared length exceeds MAX_FRAME_SIZE never reaches
\* handler.process; read_frame's error ends that connection only: the other
\* connections are as they were and the pool has a slot for the next accept.
C21_OversizedFrameRejected ==
    /\ lastIpc.op = "frame" => lastIpc.len <= MAX_FRAME_SIZE
    /\ lastIpc.op = "read_error" =>
          /\ lastIpc.len > MAX_FRAME_SIZE
          /\ ~conns[lastIpc.conn].open
          /\ \A d \in Conns \ {lastIpc.conn} : conns[d] = lastIpc.others[d]
          /\ try_acquire_owned(active_connections)

\* an oversized frame ends one connection while another one, which has shaken
\* hands, stays open
C21_Witness ==
    /\ lastIpc.op = "read_error"
    /\ lastIpc.len > MAX_FRAME_SIZE
    /\ \E d \in Conns \ {lastIpc.conn} : conns[d].open /\ conns[d].handshaken

\* connections being served
Served == {c \in Conns : conns[c].open}

\* C22: the connections being served never outnumber the cap of the
\* ConnectionPool; a connection is dropped unserved exactly when it arrives
\* with the cap reached, and every connection that ends gives its slot back.
C22_ConnectionCap ==
    /\ Cardinality(Served) <= max_connections
    /\ active_connections = Cardinality(Served)
    /\ lastIpc.op = "accept" =>
          /\ lastIpc.served <=> lastIpc.before < max_connections
          /\ lastIpc.served <=> conns[lastIpc.conn].open

\* a connection arrives with the cap reached and is dropped
C22_Witness ==
    /\ lastIpc.op = "accept"
    /\ ~lastIpc.served
    /\ Cardinality(Served) = max_connections
    /\ ~conns[lastIpc.conn].open
\* s occurs in t as a contiguous substring
Contains(t, s) == \E i \in 0..(Len(t) - Len(s)) : SubSeq(t, i + 1, i + Len(s)) = s

\* C23: however the text is split into chunks, what sanitize_chunk has
\* returned so far never contains the PII string unredacted.
C23_NoPiiEmitted == ~Contains(emitted, Pii)
\* C24: a call of core_infer_streaming that reached stream_inference has
\* invoked the callback exactly once when it returns, with is_final = true;
\* no callback follows a final one or one that returned false, and a call
\* refused before the streaming stage invokes none.
C24_FinalExactlyOnce ==
    \A s \in Streams :
        LET st == streams[s]
        IN /\ (st.pc = "returned" /\ st.streamed) =>
                 (Len(st.callbacks) = 1 /\ st.callbacks[1].is_final)
           /\ \A i \in 1..(Len(st.callbacks) - 1) :
                 ~st.callbacks[i].is_final /\ st.callbacks[i].returned
           /\ ~st.streamed => st.callbacks = <<>>

\* one call ends cancelled by its callback on the completion chunk, another
\* ends with an error delivered to its callback
C24_Witness ==
    \E s \in Streams, t \in Streams :
        /\ streams[s].pc = "returned"
        /\ streams[s].code = "Cancelled"
        /\ Len(streams[s].callbacks) = 1
        /\ ~streams[s].callbacks[1].error
        /\ streams[t].pc = "returned"
        /\ streams[t].code = "InferenceError"
        /\ Len(streams[t].callbacks) = 1
        /\ streams[t].callbacks[1].error
C26_WorkerTerminates ==
    (worker_shutdown /\ sdlog.woken) ~> (worker_pc = "exited")

\* the worker was parked on the empty queue when its token was cancelled, and
\* has terminated
C26_Witness ==
    /\ sdlog.parked_at_cancel
    /\ sdlog.woken
    /\ worker_pc = "exited"
\* record_request calls on h that have not returned yet
Recording(h) == {t \in RecTasks : rec[t].pc # "idle" /\ rec[t].handle = h}

\* C27: when every record_request call made on a handle has returned, the
\* model's request_count has grown by the number of calls and its accumulated
\* latency by the sum of their latencies.
C27_RecordRequestAtomic ==
    \A h \in DOMAIN registry :
        Recording(h) = {} =>
            /\ registry[h].request_count = recorded[h].calls
            /\ from_bits(registry[h].total_latency_ms) = recorded[h].latency

\* two calls ran at the same time on one handle, one had to repeat its
\* compare_exchange, and both have returned
C27_Witness ==
    \E h \in DOMAIN registry :
        /\ Recording(h) = {}
        /\ recorded[h].retried
        /\ recorded[h].calls >= 2
        /\ registry[h].request_count = recorded[h].calls

\* transitions of Loading -> Ready <-> Unloading, or -> Error
LegalTransition(a, b) ==
    \/ a = b
    \/ a = "Loading" /\ b = "Ready"
    \/ a = "Ready" /\ b = "Unloading"
    \/ a = "Unloading" /\ b = "Ready"
    \/ a # "Error" /\ b = "Error"

\* C28: a registered model starts in Loading and every change of its state is
\* a transition of Loading -> Ready <-> Unloading, or -> Error.
C28_StateMachine ==
    \A h \in DOMAIN registry :
        /\ registry[h].first = "Loading"
        /\ LegalTransition(registry[h].prev, registry[h].state)

\* C29: the nonce tracker never holds more than MAX_NONCE_HISTORY nonces, and
\* a nonce registered while the tracker is full is inserted after half of
\* MAX_NONCE_HISTORY entries have been removed.
C29_TrackerCapped ==
    /\ Cardinality(tracker) <= MAX_NONCE_HISTORY
    /\ (lastNonce.op = "check_and_register_nonce" /\ lastNonce.result = "Ok"
        /\ lastNonce.sizeBefore >= MAX_NONCE_HISTORY)
       => /\ lastNonce.nonce \in tracker
          /\ Cardinality(tracker) =
                lastNonce.sizeBefore - (MAX_NONCE_HISTORY \div 2) + 1

\* a fresh nonce has just been registered in a full tracker
C29_Witness ==
    /\ lastNonce.op = "check_and_register_nonce"
    /\ lastNonce.result = "Ok"
    /\ lastNonce.sizeBefore = MAX_NONCE_HISTORY
    /\ lastNonce.nonce \in tracker
\* the events given to log that are not below min_severity, in logging order
AcceptedEvents ==
    SelectSeq(audit_logged, LAMBDA e : e.severity >= audit_config.min_severity)

\* the last k elements of s
LastOf(s, k) == SubSeq(s, Len(s) - k + 1, Len(s))

\* C30: the audit log holds exactly the most recent min(n, max_events) of the
\* n accepted events, in logging order; an event below min_severity is never
\* accepted.
C30_CappedRing ==
    audit_config # NoLogger =>
        /\ audit_events =
             LastOf(AcceptedEvents, Min(Len(AcceptedEvents), audit_config.max_events))
        /\ \A i \in 1..Len(audit_events) :
             audit_events[i].severity >= audit_config.min_severity

\* more events were accepted than the log may hold, and one was refused for
\* its severity
C30_Witness ==
    /\ audit_config # NoLogger
    /\ audit_config.max_events >= 1
    /\ Len(AcceptedEvents) > audit_config.max_events
    /\ Len(AcceptedEvents) < Len(audit_logged)
    /\ Len(audit_events) = audit_config.max_events
    /\ audit_events[Len(audit_events)] = AcceptedEvents[Len(AcceptedEvents)]

\* C31: the sequence evicted when a page allocation fails is the least
\* recently used of the live sequences.  append_kv stamps last_access of the
\* sequence it appends to before it allocates, so with another sequence live
\* the least recently used one is never the sequence being appended to.
C31_EvictsLeastRecentlyUsed ==
    (lastKv.op = "append_kv" /\ lastKv.victim # None
     /\ DOMAIN sequences # {lastKv.seq})
    => lastKv.victim # lastKv.seq

\* the largest cutoff_token of the evict_beyond_window calls explored
LargestCutoff ==
    Max(CHOOSE p \in EvictPositions : \A q \in EvictPositions : q <= p,
        WindowSize + OverlapTokens) - (WindowSize + OverlapTokens)

\* C32: evict_beyond_window(seq, pos) frees only pages all of whose tokens lie
\* before cutoff_token = max(pos - (W + O), 0), also when the call is repeated
\* with the same or a larger pos: whatever the calls made, no sequence has lost
\* a token at or after the largest cutoff_token any of them had.
C32_EvictsOnlyBeforeCutoff ==
    \A seq \in DOMAIN sequences : sequences[seq].lost < LargestCutoff
\* C33: for a live sequence and pos < seq_len, read_kv(seq, pos) returns the
\* rows that were appended to that sequence at logical position pos, also
\* after the Q8 store has been reset and while other sequences are appended to.
C33_ReadReturnsAppendedRows ==
    (lastRead.op = "read_kv" /\ lastRead.pos < lastRead.seq_len)
    => /\ lastRead.result = "Ok"
       /\ lastRead.row = Row(lastRead.seq, lastRead.pos)

\* C34: submit_with_priority returns QueueFull only when every worker deque
\* holds queue_size tasks at that moment.
C34_QueueFullOnlyWhenAllFull ==
    (lastTp.op = "submit" /\ lastTp.result = "QueueFull")
    => \A w \in TpWorkers : Len(worker_queues[w]) >= queue_size
\* C35: every failed authenticate call is counted once, also when failures
\* happen at the same time: once MAX_FAILED_ATTEMPTS failed calls of one
\* window have returned, the limiter is blocked.
C35_ConcurrentFailuresCounted ==
    fail_returned >= MAX_FAILED_ATTEMPTS
    => (blocked_until # None /\ anow < blocked_until)

\* C36: a preload that returns AlreadyLoaded or EvictionFailed leaves the pool
\* as it was before the call: the call has evicted (removed from the pool,
\* unregistered and counted in the eviction metric) no model.
C36_FailedPreloadEvictsNothing ==
    (lastPool.op = "preload" /\ lastPool.result \in {"AlreadyLoaded", "EvictionFailed"})
    => lastPool.evicted = 0

\* C37: eviction_score never underflows: for every pooled model, at any time,
\* tier_weight + usage_weight is at least min(idle seconds, 999), so the
\* subtraction in u64 gives the mathematical value.
C37_ScoreNeverUnderflows ==
    \A id \in DOMAIN models :
        /\ raw_score(models[id], pnow) >= 0
        /\ eviction_score(models[id], pnow) = raw_score(models[id], pnow)

\* C39: right after reset() no sequence exists and every page the table has
\* created is on the free list, so that max_pages pages can be allocated
\* again: no page stays allocated without an owning sequence.
C39_ResetFreesEveryPage ==
    lastKv.op = "reset"
    => /\ DOMAIN sequences = {}
       /\ access_order = <<>>
       /\ \A p \in 0..pages_created - 1 : p \in SeqToSet(free_list)
\* C38: for every session connection_count equals the number of
\* track_connection calls minus the number of release_connection calls and is
\* never below zero: a release without a matching track does not wrap it.
C38_ConnectionCountBalanced ==
    \A tok \in DOMAIN connection_count :
        /\ conn_released[tok] <= conn_tracked[tok]
        /\ connection_count[tok] = conn_tracked[tok] - conn_released[tok]
\* two byte ranges share a byte
RangesOverlap(a, b) == a.start < b.end /\ b.start < a.end

\* C40: overlap resolution keeps the higher-confidence match: every detected
\* match is returned, or overlaps a returned match whose confidence is at
\* least as high, for any list of matches sorted by start.
C40_KeepsHigherConfidence ==
    pii_result # <<>>
    => \A i \in 1..Len(pii_matches) :
          \/ \E j \in 1..Len(pii_result) : pii_result[j] = pii_matches[i]
          \/ \E j \in 1..Len(pii_result) :
                /\ RangesOverlap(pii_matches[i], pii_result[j])
                /\ pii_result[j].confidence >= pii_matches[i].confidence

====
